---- MODULE Spec2Model ----
(***************************************************************************)
(* A model of the resume scoring service: the dual-judge consensus engine  *)
(* (utils/scoring_engine_dual.py), the two judge engines it calls          *)
(* (utils/scoring_engine_openai.py, utils/scoring_engine_gemini.py) and    *)
(* the candidate-comment alignment analysis (utils/structured_comments.py).*)
(*                                                                         *)
(* Python dicts are functions with string domains (Get is dict.get, Merge  *)
(* is {**a, **b}); None and an unbound local are the record Nil.           *)
(* Floating-point quantities are exact rationals: confidences are counted  *)
(* in tenths, percentages are kept as [num, den].  Where the code          *)
(* truncates a double with int(), the model truncates the exact value and  *)
(* corrects it on the inputs for which the double evaluation differs.      *)
(***************************************************************************)
EXTENDS Integers, Sequences, FiniteSets, TLC

VARIABLES
    pc,                     \* position of calculate_score in the request
    resume_data,            \* parsed resume (input)
    job_data,               \* parsed job posting (input)
    structured_analysis,    \* local of DualScoringEngine.calculate_score
    openai_result,          \* local: dict returned by the OpenAI engine
    openai_scoring_result,  \* local: ScoringResult(openai_result)
    gemini_result,          \* local: dict returned by the Gemini engine (Nil = unbound)
    gemini_scoring_result,  \* local: ScoringResult of the Gemini judge
    combined_analysis,      \* local: result of _intelligent_score_combination
    response,               \* value returned by calculate_score
    comments,               \* candidate comments given to process_user_comments
    comment_job,            \* job posting text given to process_user_comments
    comment_reply,          \* the analyzer LLM's JSON reply
    comment_result,         \* value returned by process_user_comments
    model,                  \* engine chosen by the request of score_resume
    prompts,                \* the prompt last built for each judge
    api_response,           \* value returned by score_resume
    evaluation,             \* value returned by run_evaluation
    call,                   \* library function called on its own, with its arguments
    call_result,            \* value the library call returned
    _model,                 \* ModelSingleton._model (class attribute)
    _model_name,            \* ModelSingleton._model_name
    thread_pc,              \* position of each thread inside get_model
    loads,                  \* number of SentenceTransformer constructions so far
    analyses                \* number of _analyze_structured_data runs of the request

vars == <<pc, resume_data, job_data, structured_analysis, openai_result,
          openai_scoring_result, gemini_result, gemini_scoring_result,
          combined_analysis, response, comments, comment_job, comment_reply,
          comment_result, model, prompts, api_response, evaluation,
          call, call_result, _model, _model_name, thread_pc, loads, analyses>>

dualVars == <<pc, resume_data, job_data, structured_analysis, openai_result,
              openai_scoring_result, gemini_result, gemini_scoring_result,
              combined_analysis, response>>

dualVarsButPc == <<resume_data, job_data, structured_analysis, openai_result,
                   openai_scoring_result, gemini_result, gemini_scoring_result,
                   combined_analysis, response>>

commentVars == <<comments, comment_job, comment_reply, comment_result>>

callerVars == <<model, api_response, evaluation>>

libraryVars == <<call, call_result>>

singletonVars == <<_model, _model_name, thread_pc, loads>>

\* everything a scoring request or a comment analysis works on
requestVars == <<dualVars, commentVars, callerVars, prompts, analyses>>

----------------------------------------------------------------------------
(* Python values *)

Nil == [nil |-> TRUE]

\* no library call is under way and the embedding model is not loaded
LibraryIdle ==
    /\ analyses = 0
    /\ call = Nil
    /\ call_result = Nil
    /\ _model = Nil
    /\ _model_name = Nil
    /\ thread_pc = <<>>
    /\ loads = 0

EmptyDict == [k \in {} |-> 0]

Get(d, k, default) == IF k \in DOMAIN d THEN d[k] ELSE default

Merge(a, b) == [k \in (DOMAIN a) \cup (DOMAIN b) |-> IF k \in DOMAIN b THEN b[k] ELSE a[k]]

Range(s) == {s[i] : i \in 1..Len(s)}

Abs(x) == IF x < 0 THEN -x ELSE x

Max2(a, b) == IF a >= b THEN a ELSE b

Min2(a, b) == IF a <= b THEN a ELSE b

\* str `t in s` on strings kept as sequences of characters
IsSubstr(t, s) == \E i \in 0..(Len(s) - Len(t)) : SubSeq(s, i + 1, i + Len(t)) = t

----------------------------------------------------------------------------
(* Inputs of a scoring request *)

MaxJobSkills == 2

AllJobSkills == <<"python", "sql", "aws", "docker">>

JobSkillLists == {SubSeq(AllJobSkills, 1, n) : n \in 0..MaxJobSkills}

ResumeSkillLists == {<<>>, <<"Python ">>}

\* skill.lower().strip() on the skill strings of the inputs
LowerStrip(skill) ==
    CASE skill = "Python " -> "python"
      [] skill = "SQL" -> "sql"
      [] OTHER -> skill

\* date strings of experience entries, by their format
Date_2018_2020 == [fmt |-> "YYYY-YYYY", a |-> 2018, b |-> 2020]
Date_2020_present == [fmt |-> "YYYY-present", a |-> 2020]
Date_mm_yyyy == [fmt |-> "MM/YYYY-MM/YYYY", m1 |-> 1, y1 |-> 2020, m2 |-> 12, y2 |-> 2023]
Date_2019 == [fmt |-> "YYYY", a |-> 2019]
Date_sometime == [fmt |-> "text"]
Date_empty == [fmt |-> "empty"]

ExperienceLists == {<<>>, <<[date |-> Date_2018_2020]>>, <<[date |-> Date_2020_present]>>}

\* degree strings, character by character
Str_phd == <<"p", "h", "d">>
Str_bs == <<"b", "s">>
Str_diploma == <<"d", "i", "p", "l", "o", "m", "a">>
Str_high_school == <<"h", "i", "g", "h", " ", "s", "c", "h", "o", "o", "l">>
Str_no_degree == <<"n", "o", " ", "d", "e", "g", "r", "e", "e", " ",
                   "s", "p", "e", "c", "i", "f", "i", "e", "d">>

EducationLists == {<<>>, <<[degree |-> Str_high_school]>>, <<[degree |-> Str_bs]>>,
                   <<[degree |-> Str_bs], [degree |-> Str_phd]>>}

\* job_data with and without the optional 'experience_level' key
JobLevels == {"entry", "senior"}

Resumes == [skills : ResumeSkillLists, experience : ExperienceLists, education : EducationLists]

Jobs == [skills : JobSkillLists, experience_level : JobLevels] \cup [skills : JobSkillLists]

\* datetime.now().year
current_year == 2025

----------------------------------------------------------------------------
(* ScoringEngine._analyze_structured_data and its helpers
   (utils/scoring_engine_openai.py) *)

_extract_years_from_date(date_str, year_now) ==
    CASE date_str.fmt = "empty" -> 0
      [] date_str.fmt = "YYYY-YYYY" -> date_str.b - date_str.a
      [] date_str.fmt \in {"YYYY-present", "YYYY-current"} -> year_now - date_str.a
      \* only the third pattern matches; its groups 1 and 2 are the first
      \* month and the first year
      [] date_str.fmt = "MM/YYYY-MM/YYYY" -> date_str.y1 - date_str.m1
      [] date_str.fmt = "YYYY" -> 1
      [] OTHER -> 0

RECURSIVE SumYears(_, _)
SumYears(experience, year_now) ==
    IF experience = <<>> THEN 0
    ELSE _extract_years_from_date(Head(experience).date, year_now)
         + SumYears(Tail(experience), year_now)

_calculate_experience_years(experience) == SumYears(experience, current_year)

\* The date strings a call of the date helpers is given, by their format:
\* 'a-b', 'a-present', 'a-current', 'm1/y1-m2/y2', 'a', a text without any
\* digit, and the empty string.  The years include a year after the current
\* one, and a range may run backwards.
DateYears == {2018, 2020, 2023, 2030}

DateStrings ==
    {[fmt |-> "YYYY-YYYY", a |-> a, b |-> b] : a \in DateYears, b \in DateYears}
    \cup {[fmt |-> f, a |-> a] : f \in {"YYYY-present", "YYYY-current", "YYYY"}, a \in DateYears}
    \cup {[fmt |-> "MM/YYYY-MM/YYYY", m1 |-> m1, y1 |-> y1, m2 |-> 12, y2 |-> y2] :
              m1 \in {1, 12}, y1 \in DateYears, y2 \in DateYears}
    \cup {Date_sometime, Date_empty}

MaxExperienceEntries == 2

\* the experience lists of at most MaxExperienceEntries entries
ExperienceEntryLists ==
    UNION {[1..n -> {[date |-> d] : d \in DateStrings}] : n \in 0..MaxExperienceEntries}

\* a direct call of one of the two date helpers (the helpers of
\* BaseScoringEngine and of ScoringEngine are the same code)
ExperienceCalls ==
    {[function |-> "_extract_years_from_date", date_str |-> d] : d \in DateStrings}
    \cup {[function |-> "_calculate_experience_years", experience |-> e] :
              e \in ExperienceEntryLists}

ExtractYearsFromDate ==
    /\ call # Nil
    /\ call.function = "_extract_years_from_date"
    /\ call_result = Nil
    /\ call_result' = [value |-> _extract_years_from_date(call.date_str, current_year)]
    /\ UNCHANGED <<call, singletonVars, requestVars>>

CalculateExperienceYears ==
    /\ call # Nil
    /\ call.function = "_calculate_experience_years"
    /\ call_result = Nil
    /\ call_result' = [value |-> _calculate_experience_years(call.experience)]
    /\ UNCHANGED <<call, singletonVars, requestVars>>

\* level_requirements; the upper bound of 'senior' is infinity
LevelMin(level) == CASE level = "entry" -> 0 [] level = "mid" -> 3 [] OTHER -> 7

LevelMeets(years, level) ==
    CASE level = "entry" -> 0 <= years /\ years <= 2
      [] level = "mid" -> 3 <= years /\ years <= 6
      [] OTHER -> 7 <= years

_evaluate_experience_level(years, required_level) ==
    IF required_level \in {"entry", "mid", "senior"}
    THEN [meets_requirement |-> LevelMeets(years, required_level),
          actual_years |-> years,
          level_match_score |->
              IF LevelMeets(years, required_level) THEN 100
              ELSE Max2(0, 100 - Abs(years - LevelMin(required_level)) * 10)]
    ELSE [meets_requirement |-> TRUE,
          actual_years |-> years,
          level_match_score |-> 70]

\* degree_hierarchy: the level of the strongest term contained in the string
DegreeLevel(degree) ==
    IF \E t \in {<<"p","h","d">>, <<"d","o","c","t","o","r","a","t","e">>,
                 <<"d","o","c","t","o","r","a","l">>} : IsSubstr(t, degree) THEN 5
    ELSE IF \E t \in {<<"m","a","s","t","e","r">>, <<"m","b","a">>, <<"m","s">>,
                      <<"m","a">>} : IsSubstr(t, degree) THEN 4
    ELSE IF \E t \in {<<"b","a","c","h","e","l","o","r">>, <<"b","s">>, <<"b","a">>,
                      <<"b","e">>} : IsSubstr(t, degree) THEN 3
    ELSE IF IsSubstr(<<"a","s","s","o","c","i","a","t","e">>, degree) THEN 2
    ELSE IF \E t \in {<<"d","i","p","l","o","m","a">>,
                      <<"c","e","r","t","i","f","i","c","a","t","e">>} : IsSubstr(t, degree) THEN 1
    ELSE 0

\* the first entry whose level exceeds every earlier one and is the highest
_get_highest_degree(education) ==
    LET top == CHOOSE l \in 0..5 :
                   /\ \A i \in 1..Len(education) : DegreeLevel(education[i].degree) <= l
                   /\ (l = 0 \/ \E i \in 1..Len(education) : DegreeLevel(education[i].degree) = l)
    IN IF top = 0 THEN Str_no_degree
       ELSE education[CHOOSE i \in 1..Len(education) :
                          /\ DegreeLevel(education[i].degree) = top
                          /\ \A j \in 1..(i - 1) : DegreeLevel(education[j].degree) < top].degree

_get_degree_score(degree) == 20 * DegreeLevel(degree)

\* the analysis dict; its 'metadata' (a timestamp and two text lengths) is left out
_analyze_structured_data(resume, job) ==
    LET resume_skills == {LowerStrip(s) : s \in Range(resume.skills)}
        job_skills == {LowerStrip(s) : s \in Range(Get(job, "skills", <<>>))}
        matching_skills == resume_skills \cap job_skills
        missing_skills == job_skills \ resume_skills
        total_years == _calculate_experience_years(resume.experience)
        required_level == Get(job, "experience_level", "not specified")
        highest_degree == _get_highest_degree(resume.education)
    IN [skills_analysis |->
            IF job_skills # {}
            THEN [total_required_skills |-> Cardinality(job_skills),
                  matching_skills_count |-> Cardinality(matching_skills),
                  missing_skills_count |-> Cardinality(missing_skills),
                  skills_match_percentage |->
                      [num |-> Cardinality(matching_skills) * 100, den |-> Cardinality(job_skills)],
                  matching_skills |-> matching_skills,
                  missing_skills |-> missing_skills]
            ELSE EmptyDict,
        experience_analysis |->
            IF resume.experience # <<>>
            THEN [total_years_experience |-> total_years,
                  number_of_positions |-> Len(resume.experience),
                  required_experience_level |-> required_level,
                  experience_level_match |-> _evaluate_experience_level(total_years, required_level)]
            ELSE EmptyDict,
        education_analysis |->
            IF resume.education # <<>>
            THEN [highest_degree |-> highest_degree,
                  education_count |-> Len(resume.education),
                  degree_level_score |-> _get_degree_score(highest_degree)]
            ELSE EmptyDict]

----------------------------------------------------------------------------
(* What an LLM backend does with one request: it answers with a JSON object,
   or the client call fails (network error, timeout) or the text it returns
   is not JSON.  overall_score arrives as the backend wrote it. *)

ScoreValues == {0, 50, 77, 90, 150}

ConfidenceLevels == {"High", "Medium", "Low"}

FailureKinds == {"network_error", "timeout", "malformed_json"}

BackendReplies ==
    [kind : {"json"}, overall_score : ScoreValues, confidence_level : ConfidenceLevels]
    \cup [kind : FailureKinds]

\* json.loads of the reply text
ParsedJson(reply, provider) ==
    [overall_score |-> reply.overall_score,
     confidence_level |-> reply.confidence_level,
     summary |-> <<provider, "summary">>,
     strengths |-> {<<provider, "strength">>},
     concerns |-> {<<provider, "concern">>}]

----------------------------------------------------------------------------
(* The two judges *)

\* ScoringEngine._create_error_response / GeminiScoringEngine._create_error_response
_create_error_response(provider, error_message) ==
    [overall_score |-> 0,
     confidence_level |-> "Low",
     match_category |-> <<"Error", provider, "analysis failed">>,
     summary |-> <<provider, "error", error_message>>,
     strengths |-> {},
     concerns |-> {<<provider, "analysis unavailable">>},
     error_occurred |-> TRUE,
     error_message |-> error_message]

\* ScoringEngine.calculate_score: a failure of the backend call or of
\* json.loads is caught by the inner handler
OpenAI_calculate_score(resume, job, reply) ==
    LET own_analysis == _analyze_structured_data(resume, job)
        result == IF reply.kind = "json" THEN ParsedJson(reply, "OpenAI")
                  ELSE _create_error_response("OpenAI", reply.kind)
        final_score == Get(result, "overall_score", 0)
    IN Merge(result,
             [final_score |-> final_score,
              structured_analysis |-> own_analysis,
              openai_results |->
                  [result |-> result,
                   processing_info |->
                       IF reply.kind = "json"
                       THEN [model_used |-> "openai_model", provider |-> "OpenAI"]
                       ELSE [error |-> TRUE, provider |-> "OpenAI"]],
              transparency |->
                  [score_components |->
                       [structured_score |-> Get(own_analysis, "structured_score", 0),
                        openai_score |-> IF Get(result, "error_occurred", FALSE) THEN 0
                                         ELSE Get(result, "overall_score", 0),
                        final_score |-> final_score],
                   validation |->
                       [openai_available |-> ~Get(result, "error_occurred", FALSE),
                        fallback_used |-> Get(result, "error_occurred", FALSE)]]])

\* GeminiScoringEngine._create_standardized_error_response
_create_standardized_error_response(error_response, processing_info) ==
    Merge(error_response,
          [final_score |-> 0,
           structured_analysis |-> EmptyDict,
           gemini_results |-> [result |-> error_response, processing_info |-> processing_info],
           transparency |->
               [score_components |-> [structured_score |-> 0, gemini_score |-> 0, final_score |-> 0],
                validation |-> [gemini_available |-> FALSE, fallback_used |-> TRUE]]])

\* GeminiScoringEngine.calculate_score: both handlers return the standardized
\* error response
Gemini_calculate_score(resume, job, analysis, reply) ==
    IF reply.kind = "json"
    THEN LET result == ParsedJson(reply, "Gemini")
             final_score == Get(result, "overall_score", 0)
         IN Merge(result,
                  [final_score |-> final_score,
                   structured_analysis |-> analysis,
                   gemini_results |-> [result |-> result,
                                       processing_info |-> [model_used |-> "gemini-1.5-pro",
                                                            provider |-> "Google Gemini"]],
                   transparency |->
                       [score_components |->
                            [structured_score |-> Get(analysis, "structured_score", 0),
                             gemini_score |-> IF Get(result, "error_occurred", FALSE) THEN 0
                                              ELSE Get(result, "overall_score", 0),
                             final_score |-> final_score],
                        validation |->
                            [gemini_available |-> ~Get(result, "error_occurred", FALSE),
                             fallback_used |-> Get(result, "error_occurred", FALSE)]]])
    ELSE _create_standardized_error_response(
             _create_error_response("Gemini", reply.kind),
             [provider |-> "Gemini", error |-> TRUE])

----------------------------------------------------------------------------
(* The prompts of the judges.  A prompt is the record of the values put into
   its JOB CONTEXT, RESUME and JOB DESCRIPTION sections (the figures of the
   pre-analysis and the fixed instructions are left out).  The text of a
   resume is the sequence of its pieces. *)

\* ScoringEngine._create_enhanced_prompt
_create_enhanced_prompt(resume, job, analysis) ==
    [position |-> Get(job, "title", "Not specified"),
     experience_level |-> Get(job, "experience_level", "not specified"),
     resume_text |-> Get(resume, "full_text", <<"Not available">>),
     job_description |-> Get(job, "description", "Not available")]

\* GeminiScoringEngine._create_gemini_prompt
_create_gemini_prompt(resume, job, analysis) ==
    [position |-> Get(job, "title", "Not specified"),
     experience_level |-> Get(job, "experience_level", "not specified"),
     resume_text |-> Get(resume, "full_text", <<"Not available">>),
     job_description |-> Get(job, "description", "Not available")]

\* the structured analysis GeminiScoringEngine.calculate_score uses when it
\* is given none
MinimalAnalysis ==
    [skills_analysis |-> EmptyDict, experience_analysis |-> EmptyDict,
     education_analysis |-> EmptyDict]

\* no prompt has been built
NoPrompts == [openai |-> Nil, gemini |-> Nil, base |-> Nil]

----------------------------------------------------------------------------
(* ScoringResult (utils/scoring_engine_dual.py); confidences in tenths *)

BaseConfidence(confidence_level) ==
    CASE confidence_level \in {"High", "high", "HIGH"} -> 9
      [] confidence_level \in {"Medium", "medium", "MEDIUM"} -> 7
      [] confidence_level \in {"Low", "low", "LOW"} -> 4
      [] OTHER -> 5

\* _calculate_confidence without the early return for an errored result
_calculate_confidence_ErrorNotZero(result, score) ==
    LET base == BaseConfidence(Get(result, "confidence_level", "Medium"))
        certainty == IF score >= 85 \/ score <= 25 THEN 1
                     ELSE IF 40 <= score /\ score <= 70 THEN -1
                     ELSE 0
        validation == Get(Get(result, "transparency", EmptyDict), "validation", EmptyDict)
        completeness == IF Get(validation, "fallback_used", FALSE) THEN -2 ELSE 0
    IN Max2(1, Min2(10, base + certainty + completeness))

\* _calculate_confidence with the extreme band read as score > 85 or score < 25
_calculate_confidence_StrictBands(result, score) ==
    IF Get(result, "error_occurred", FALSE) THEN 0
    ELSE LET base == BaseConfidence(Get(result, "confidence_level", "Medium"))
             certainty == IF score > 85 \/ score < 25 THEN 1
                          ELSE IF 40 <= score /\ score <= 70 THEN -1
                          ELSE 0
             validation == Get(Get(result, "transparency", EmptyDict), "validation", EmptyDict)
             completeness == IF Get(validation, "fallback_used", FALSE) THEN -2 ELSE 0
         IN Max2(1, Min2(10, base + certainty + completeness))

_calculate_confidence(result, score) ==
    IF Get(result, "error_occurred", FALSE) THEN 0
    ELSE LET base == BaseConfidence(Get(result, "confidence_level", "Medium"))
             certainty == IF score >= 85 \/ score <= 25 THEN 1
                          ELSE IF 40 <= score /\ score <= 70 THEN -1
                          ELSE 0
             validation == Get(Get(result, "transparency", EmptyDict), "validation", EmptyDict)
             completeness == IF Get(validation, "fallback_used", FALSE) THEN -2 ELSE 0
         IN Max2(1, Min2(10, base + certainty + completeness))

\* The confidence is a double: 0.7 + 0.1 is 0.7999999999999999 and 0.4 - 0.1
\* is 0.30000000000000004.  ConfidenceRounding is the sign of the difference
\* between the double the code computes and the tenth it is counted as.
ConfidenceRounding(result, score) ==
    IF Get(result, "error_occurred", FALSE) THEN 0
    ELSE LET base == BaseConfidence(Get(result, "confidence_level", "Medium"))
             certainty == IF score >= 85 \/ score <= 25 THEN 1
                          ELSE IF 40 <= score /\ score <= 70 THEN -1
                          ELSE 0
             validation == Get(Get(result, "transparency", EmptyDict), "validation", EmptyDict)
             completeness == IF Get(validation, "fallback_used", FALSE) THEN -2 ELSE 0
         IN CASE base = 9 /\ certainty = -1 /\ completeness = -2 -> 1
              [] base = 7 /\ (certainty = 1 \/ completeness = -2) -> -1
              [] base = 4 /\ certainty = -1 -> 1
              [] base = 5 /\ certainty = 1 /\ completeness = -2 -> -1
              [] OTHER -> 0

_get_provider(result) ==
    IF "openai_results" \in DOMAIN result THEN "OpenAI"
    ELSE IF "gemini_results" \in DOMAIN result THEN "Gemini"
    ELSE "Unknown"

\* ScoringResult that does not read the error flag of the result
ScoringResult_ErrorFlagDropped(result_dict) ==
    [raw_result |-> result_dict,
     score |-> Get(result_dict, "overall_score", 0),
     final_score |-> Get(result_dict, "final_score", Get(result_dict, "overall_score", 0)),
     confidence |-> _calculate_confidence(result_dict, Get(result_dict, "overall_score", 0)),
     error_occurred |-> FALSE,
     provider |-> _get_provider(result_dict)]

ScoringResult(result_dict) ==
    [raw_result |-> result_dict,
     score |-> Get(result_dict, "overall_score", 0),
     final_score |-> Get(result_dict, "final_score", Get(result_dict, "overall_score", 0)),
     confidence |-> _calculate_confidence(result_dict, Get(result_dict, "overall_score", 0)),
     error_occurred |-> Get(result_dict, "error_occurred", FALSE),
     provider |-> _get_provider(result_dict)]

----------------------------------------------------------------------------
(* DualScoringEngine (utils/scoring_engine_dual.py) *)

\* [r for r in scoring_results if not r.error_occurred and r.score > 0]
ValidResults(scoring_results) ==
    SelectSeq(scoring_results, LAMBDA r : ~r.error_occurred /\ r.score > 0)

\* [r for r in scoring_results if not r.error_occurred]
NonErrorResults(scoring_results) ==
    SelectSeq(scoring_results, LAMBDA r : ~r.error_occurred)

\* sum(r.score * r.confidence for r in valid_results), in tenths
RECURSIVE WeightedSum(_)
WeightedSum(valid_results) ==
    IF valid_results = <<>> THEN 0
    ELSE Head(valid_results).score * Head(valid_results).confidence
         + WeightedSum(Tail(valid_results))

\* sum(r.confidence for r in valid_results), in tenths
RECURSIVE TotalConfidence(_)
TotalConfidence(valid_results) ==
    IF valid_results = <<>> THEN 0
    ELSE Head(valid_results).confidence + TotalConfidence(Tail(valid_results))

\* skills_match_percentage as a rational; 0 when the key is absent
SkillsScore(analysis) ==
    Get(Get(analysis, "skills_analysis", EmptyDict), "skills_match_percentage",
        [num |-> 0, den |-> 1])

\* experience_analysis.get('level_match_score', 50): the key is looked up in
\* experience_analysis itself
ExperienceScore(analysis) ==
    Get(Get(analysis, "experience_analysis", EmptyDict), "level_match_score", 50)

EducationScore(analysis) ==
    Get(Get(analysis, "education_analysis", EmptyDict), "degree_level_score", 50)

\* int(skills*0.35 + experience*0.30 + education*0.15 + 0*0.20); on the
\* skill fractions and degree scores of the model the double sum truncates
\* to the same integer as the exact sum
FallbackScore(analysis) ==
    LET skills == SkillsScore(analysis)
    IN (skills.num * 35
            + skills.den * (ExperienceScore(analysis) * 30 + EducationScore(analysis) * 15))
           \div (100 * skills.den)

\* int(weighted_sum / total_confidence) is computed in doubles (the
\* confidences are 0.9 - 0.1, 0.7 + 0.1, ...).  The double quotient truncates
\* to the floor of the exact quotient except when the exact quotient is an
\* integer q and the double lies just below it, where int() gives q - 1.
\* The two tables list the answers of two valid judges for which that
\* happens, whatever their order; a judge's answer is <<score, base
\* confidence, fallback adjustment>> in tenths.  They are complete for two
\* judges answering High, Medium or Low with scores in ScoreValues, for two
\* judges answering High with scores 1..101, and for scores 90 and 50 with
\* any level and fallback flag.

\* both judges answer High without fallback flag: the scores, lower first
QuotientBelowExactHigh ==
    {
    <<13, 67>>, <<17, 62>>, <<21, 57>>, <<22, 67>>, <<25, 52>>, <<26, 36>>, <<26, 43>>, <<27, 35>>,
    <<27, 44>>, <<27, 77>>, <<28, 34>>, <<28, 36>>, <<28, 62>>, <<29, 33>>, <<29, 63>>, <<29, 75>>,
    <<30, 32>>, <<30, 47>>, <<32, 49>>, <<32, 72>>, <<32, 82>>, <<33, 67>>, <<33, 71>>, <<34, 68>>,
    <<34, 80>>, <<35, 39>>, <<35, 52>>, <<35, 69>>, <<36, 38>>, <<36, 72>>, <<36, 78>>, <<36, 82>>,
    <<37, 54>>, <<37, 77>>, <<39, 75>>, <<40, 42>>, <<40, 52>>, <<40, 62>>, <<42, 50>>, <<42, 60>>,
    <<42, 70>>, <<42, 76>>, <<43, 43>>, <<43, 49>>, <<43, 59>>, <<43, 69>>, <<43, 77>>, <<44, 98>>,
    <<45, 47>>, <<45, 57>>, <<45, 67>>, <<47, 55>>, <<47, 65>>, <<49, 94>>, <<50, 52>>, <<50, 62>>,
    <<52, 60>>, <<52, 70>>, <<54, 71>>, <<54, 90>>, <<54, 99>>, <<55, 57>>, <<55, 67>>, <<55, 72>>,
    <<57, 65>>, <<59, 86>>, <<59, 95>>, <<60, 62>>, <<60, 77>>, <<61, 78>>, <<62, 70>>, <<64, 91>>,
    <<64, 100>>, <<65, 67>>, <<65, 82>>, <<66, 83>>, <<69, 87>>, <<69, 96>>, <<71, 77>>, <<72, 76>>,
    <<73, 75>>, <<75, 83>>, <<76, 82>>, <<77, 81>>, <<78, 80>>
    }

QuotientBelowExact ==
    {<<<<50, 4, 0>>, <<50, 9, 0>>>>, <<<<50, 4, 0>>, <<90, 4, -2>>>>,
     <<<<50, 9, 0>>, <<77, 4, 0>>>>, <<<<50, 9, -2>>, <<90, 5, 0>>>>,
     <<<<50, 9, -2>>, <<90, 7, -2>>>>, <<<<77, 7, 0>>, <<77, 9, 0>>>>}

\* IntQuotient with the confidences left out: the plain mean of the two scores
IntQuotient_PlainMean(valid_results) ==
    (valid_results[1].score + valid_results[2].score) \div 2

\* int(weighted_sum / total_confidence)
IntQuotient(valid_results) ==
    LET Answer(r) ==
            <<r.score,
              BaseConfidence(Get(r.raw_result, "confidence_level", "Medium")),
              IF Get(Get(Get(r.raw_result, "transparency", EmptyDict),
                         "validation", EmptyDict), "fallback_used", FALSE)
              THEN -2 ELSE 0>>
        first == Answer(valid_results[1])
        second == Answer(valid_results[2])
        exact == WeightedSum(valid_results) \div TotalConfidence(valid_results)
        below ==
            \/ <<first, second>> \in QuotientBelowExact
            \/ <<second, first>> \in QuotientBelowExact
            \/ /\ first[2] = 9 /\ first[3] = 0 /\ second[2] = 9 /\ second[3] = 0
               /\ <<Min2(first[1], second[1]), Max2(first[1], second[1])>>
                      \in QuotientBelowExactHigh
    IN IF Len(valid_results) = 2 /\ below THEN exact - 1 ELSE exact

\* CombinedScore with the single judge's score weighted by its confidence
\* instead of passed through
CombinedScore_SingleWeighted(scoring_results, analysis) ==
    LET valid_results == ValidResults(scoring_results)
    IN IF Len(valid_results) >= 2
       THEN IF TotalConfidence(valid_results) > 0 THEN IntQuotient(valid_results) ELSE 0
       ELSE IF Len(valid_results) = 1
       THEN (valid_results[1].score * valid_results[1].confidence) \div 10
       ELSE FallbackScore(analysis)

\* combined_score in the three branches
CombinedScore(scoring_results, analysis) ==
    LET valid_results == ValidResults(scoring_results)
    IN IF Len(valid_results) >= 2
       THEN IF TotalConfidence(valid_results) > 0 THEN IntQuotient(valid_results) ELSE 0
       ELSE IF Len(valid_results) = 1
       THEN valid_results[1].score
       ELSE FallbackScore(analysis)

\* Two judges are scored, so two valid results are all of them: the
\* population standard deviation of scores a and b is |a - b| / 2 and their
\* mean (a + b) / 2.
StdDev(valid_results) ==
    [num |-> Abs(valid_results[1].score - valid_results[2].score), den |-> 2]

ScoreSum(valid_results) == valid_results[1].score + valid_results[2].score

\* CVAtMost with the comparison read as coefficient_of_variation < bound / 100
CVAtMost_Strict(valid_results, bound) ==
    IF ScoreSum(valid_results) > 0
    THEN 100 * StdDev(valid_results).num < bound * ScoreSum(valid_results)
    ELSE 100 < bound

\* coefficient_of_variation <= bound / 100
CVAtMost(valid_results, bound) ==
    IF ScoreSum(valid_results) > 0
    THEN 100 * StdDev(valid_results).num <= bound * ScoreSum(valid_results)
    ELSE 100 <= bound

\* f"Single Model ({result.provider})"
SingleModelLabel(provider) ==
    CASE provider = "OpenAI" -> "Single Model (OpenAI)"
      [] provider = "Gemini" -> "Single Model (Gemini)"
      [] OTHER -> "Single Model (Unknown)"

ConsensusLevel(scoring_results) ==
    LET valid_results == ValidResults(scoring_results)
    IN IF Len(valid_results) >= 2
       THEN IF CVAtMost(valid_results, 10) THEN "Very High"
            ELSE IF CVAtMost(valid_results, 20) THEN "High"
            ELSE IF CVAtMost(valid_results, 35) THEN "Medium"
            ELSE IF CVAtMost(valid_results, 50) THEN "Low"
            ELSE "Very Low"
       ELSE IF Len(valid_results) = 1
       THEN SingleModelLabel(valid_results[1].provider)
       ELSE "Fallback Only"

ScoreVariance(scoring_results) ==
    LET valid_results == ValidResults(scoring_results)
    IN IF Len(valid_results) >= 2 THEN StdDev(valid_results) ELSE Nil

\* 'recommendations' (texts built from the first missing skills, whose order
\* in a list made from a set is arbitrary) is left out
_create_enhanced_fallback_response(analysis) ==
    LET skills_analysis == Get(analysis, "skills_analysis", EmptyDict)
        experience_analysis == Get(analysis, "experience_analysis", EmptyDict)
        education_analysis == Get(analysis, "education_analysis", EmptyDict)
        missing_skills == Get(skills_analysis, "missing_skills", {})
        matching_skills == Get(skills_analysis, "matching_skills", {})
        skills_match_pct == Get(skills_analysis, "skills_match_percentage", [num |-> 0, den |-> 1])
    IN [confidence_level |-> "Low",
        score_breakdown |->
            [skills_score |-> skills_match_pct.num \div skills_match_pct.den,
             experience_score |-> Get(experience_analysis, "level_match_score", 50),
             education_score |-> Get(education_analysis, "degree_level_score", 50),
             domain_score |-> 0],
        match_category |-> <<"Analysis Limited - AI Services Unavailable">>,
        summary |-> <<"Structured analysis", skills_match_pct>>,
        strengths |-> IF matching_skills # {} THEN {<<s>> : s \in matching_skills}
                      ELSE {<<"Analysis incomplete">>},
        concerns |-> {<<"Limited analysis depth">>, <<"AI services unavailable">>}
                     \cup (IF skills_match_pct.num < 30 * skills_match_pct.den
                           THEN {<<"Significant skills gaps">>} ELSE {}),
        missing_skills |-> missing_skills,
        matching_skills |-> matching_skills,
        experience_assessment |-> experience_analysis,
        risk_factors |-> {<<"Incomplete analysis">>, <<"AI verification unavailable">>}]

\* a.confidence < b.confidence, on the doubles
ConfidenceBelow(a, b) ==
    \/ a.confidence < b.confidence
    \/ /\ a.confidence = b.confidence
       /\ ConfidenceRounding(a.raw_result, a.score) < ConfidenceRounding(b.raw_result, b.score)

\* max(valid_results, key=confidence) keeps the first of equally confident results
_select_primary_result(scoring_results, analysis) ==
    LET valid_results == NonErrorResults(scoring_results)
    IN IF valid_results = <<>>
       THEN _create_enhanced_fallback_response(analysis)
       ELSE valid_results[CHOOSE i \in 1..Len(valid_results) :
                              /\ \A j \in 1..Len(valid_results) :
                                     ~ConfidenceBelow(valid_results[i], valid_results[j])
                              /\ \A j \in 1..(i - 1) :
                                     ConfidenceBelow(valid_results[j], valid_results[i])
                         ].raw_result

\* max(abs(s - mean_score)) over two scores is |a - b| / 2
ScoreAgreement(valid_results) ==
    LET deviation2 == Abs(valid_results[1].score - valid_results[2].score)
    IN IF deviation2 <= 2 * 3 THEN "Exceptional"
       ELSE IF deviation2 <= 2 * 7 THEN "Very High"
       ELSE IF deviation2 <= 2 * 12 THEN "High"
       ELSE IF deviation2 <= 2 * 18 THEN "Moderate"
       ELSE IF deviation2 <= 2 * 25 THEN "Low"
       ELSE "Very Low"

ProviderKey(provider) ==
    CASE provider = "OpenAI" -> "openai" [] provider = "Gemini" -> "gemini" [] OTHER -> "unknown"

\* {r.provider.lower(): r.confidence for r in scoring_results}
ConfidenceByProvider(scoring_results) ==
    [k \in {ProviderKey(scoring_results[i].provider) : i \in 1..Len(scoring_results)} |->
        scoring_results[CHOOSE i \in 1..Len(scoring_results) :
                            /\ ProviderKey(scoring_results[i].provider) = k
                            /\ \A j \in (i + 1)..Len(scoring_results) :
                                   ProviderKey(scoring_results[j].provider) # k].confidence]

\* the qualitative comparison of strengths and concerns is left out; a
\* score_agreement of None is the string "None"
_enhanced_agreement_analysis(scoring_results) ==
    LET valid_results == NonErrorResults(scoring_results)
    IN [both_available |-> Len(valid_results) >= 2,
        models_used |-> [i \in 1..Len(scoring_results) |-> scoring_results[i].provider],
        confidence_scores |-> ConfidenceByProvider(scoring_results),
        score_agreement |-> IF Len(valid_results) >= 2
                            THEN ScoreAgreement(valid_results) ELSE "None"]

\* next((r.score for r in scoring_results if r.provider == provider), 0)
ScoreOf(scoring_results, provider) ==
    IF \E i \in 1..Len(scoring_results) : scoring_results[i].provider = provider
    THEN scoring_results[CHOOSE i \in 1..Len(scoring_results) :
                             /\ scoring_results[i].provider = provider
                             /\ \A j \in 1..(i - 1) : scoring_results[j].provider # provider].score
    ELSE 0

_intelligent_score_combination(scoring_results, analysis) ==
    Merge(_select_primary_result(scoring_results, analysis),
          [overall_score |-> CombinedScore(scoring_results, analysis),
           ai_comparison |->
               [openai_score |-> ScoreOf(scoring_results, "OpenAI"),
                gemini_score |-> ScoreOf(scoring_results, "Gemini"),
                score_variance |-> ScoreVariance(scoring_results),
                consensus_level |-> ConsensusLevel(scoring_results),
                agreement_analysis |-> _enhanced_agreement_analysis(scoring_results),
                confidence_weights |-> ConfidenceByProvider(scoring_results)]])

----------------------------------------------------------------------------
(* DualScoringEngine.calculate_score, phase by phase *)

\* the dict built at the end of calculate_score
ComprehensiveResponse(combined, analysis, o_result, o_scoring, g_result, g_scoring) ==
    LET final_score == Get(combined, "overall_score", 0)
        ai_comparison == Get(combined, "ai_comparison", EmptyDict)
    IN Merge(combined,
             [final_score |-> final_score,
              structured_analysis |-> analysis,
              dual_model_results |->
                  [openai |-> [result |-> o_result,
                               processing_info |->
                                   Get(Get(o_result, "openai_results", EmptyDict),
                                       "processing_info", EmptyDict)],
                   gemini |-> [result |-> g_result,
                               processing_info |->
                                   Get(Get(g_result, "gemini_results", EmptyDict),
                                       "processing_info", EmptyDict)]],
              transparency |->
                  [methodology |-> <<"Dual AI (OpenAI + Gemini) + Structured Analysis">>,
                   score_components |->
                       [structured_score |-> Get(analysis, "structured_score", 0),
                        openai_score |-> IF o_scoring.error_occurred THEN 0 ELSE o_scoring.score,
                        gemini_score |-> IF g_scoring.error_occurred THEN 0 ELSE g_scoring.score,
                        final_combined_score |-> final_score],
                   validation |->
                       [models_agreement |-> Get(ai_comparison, "consensus_level", "Unknown"),
                        score_variance |-> Get(ai_comparison, "score_variance", Nil),
                        both_models_available |->
                            ~(o_scoring.error_occurred \/ g_scoring.error_occurred),
                        fallback_used |-> o_scoring.error_occurred /\ g_scoring.error_occurred,
                        confidence_weighted_scoring |-> TRUE]]])

\* the dict returned by the handler of calculate_score's outer try
DualErrorResponse(error_message) ==
    [overall_score |-> 0,
     confidence_level |-> "Low",
     match_category |-> <<"Error">>,
     summary |-> <<"Dual model analysis failed", error_message>>,
     error |-> TRUE,
     error_message |-> error_message]

DualInit ==
    /\ pc = "start"
    /\ resume_data \in Resumes
    /\ job_data \in Jobs
    /\ structured_analysis = Nil
    /\ openai_result = Nil
    /\ openai_scoring_result = Nil
    /\ gemini_result = Nil
    /\ gemini_scoring_result = Nil
    /\ combined_analysis = Nil
    /\ response = Nil

\* Phase 1: structured_analysis = self.openai_engine._analyze_structured_data(...)
AnalyzeStructured ==
    /\ pc = "start"
    /\ structured_analysis' = _analyze_structured_data(resume_data, job_data)
    /\ pc' = "openai"
    /\ UNCHANGED <<prompts, callerVars>>
    /\ UNCHANGED commentVars
    /\ UNCHANGED <<resume_data, job_data, openai_result, openai_scoring_result,
                   gemini_result, gemini_scoring_result, combined_analysis, response>>
    /\ UNCHANGED <<libraryVars, singletonVars>>
    /\ analyses' = analyses + 1

\* Phase 2: openai_result = self.openai_engine.calculate_score(resume_data, job_data)
CallOpenAI ==
    /\ pc = "openai"
    /\ \E reply \in BackendReplies :
           /\ openai_result' = OpenAI_calculate_score(resume_data, job_data, reply)
           /\ openai_scoring_result' = ScoringResult(openai_result')
    /\ prompts' = [prompts EXCEPT !.openai =
                       _create_enhanced_prompt(resume_data, job_data,
                           _analyze_structured_data(resume_data, job_data))]
    /\ pc' = "gemini"
    /\ UNCHANGED callerVars
    /\ UNCHANGED commentVars
    /\ UNCHANGED <<resume_data, job_data, structured_analysis, gemini_result,
                   gemini_scoring_result, combined_analysis, response>>
    /\ UNCHANGED <<libraryVars, singletonVars>>
    /\ analyses' = analyses + 1

\* Phase 2: gemini_result = self.gemini_engine.calculate_score(...) returns
CallGemini ==
    /\ pc = "gemini"
    /\ \E reply \in BackendReplies :
           /\ gemini_result' = Gemini_calculate_score(resume_data, job_data,
                                                      structured_analysis, reply)
           /\ gemini_scoring_result' = ScoringResult(gemini_result')
    /\ prompts' = [prompts EXCEPT !.gemini =
                       _create_gemini_prompt(resume_data, job_data, structured_analysis)]
    /\ pc' = "combine"
    /\ UNCHANGED callerVars
    /\ UNCHANGED commentVars
    /\ UNCHANGED <<resume_data, job_data, structured_analysis, openai_result,
                   openai_scoring_result, combined_analysis, response>>
    /\ UNCHANGED <<libraryVars, singletonVars, analyses>>

\* Phase 2: the call of the Gemini engine raises; the handler builds the
\* ScoringResult of an error response and leaves gemini_result unbound
CallGeminiRaises ==
    /\ pc = "gemini"
    /\ gemini_scoring_result' =
           ScoringResult(_create_standardized_error_response(
                             _create_error_response("Gemini", "exception"),
                             [provider |-> "Gemini", error |-> TRUE]))
    /\ pc' = "combine"
    /\ UNCHANGED <<prompts, callerVars>>
    /\ UNCHANGED commentVars
    /\ UNCHANGED <<resume_data, job_data, structured_analysis, openai_result,
                   openai_scoring_result, gemini_result, combined_analysis, response>>
    /\ UNCHANGED <<libraryVars, singletonVars, analyses>>

\* Phase 3 entered while the Gemini call is still outstanding, with the
\* results at hand
Combine_BeforeGemini ==
    /\ pc \in {"gemini", "combine"}
    /\ combined_analysis' =
           _intelligent_score_combination(
               <<openai_scoring_result,
                 IF gemini_scoring_result = Nil THEN openai_scoring_result
                 ELSE gemini_scoring_result>>,
               structured_analysis)
    /\ pc' = "respond"
    /\ UNCHANGED <<prompts, callerVars>>
    /\ UNCHANGED commentVars
    /\ UNCHANGED <<resume_data, job_data, structured_analysis, openai_result,
                   openai_scoring_result, gemini_result, gemini_scoring_result, response>>
    /\ UNCHANGED <<libraryVars, singletonVars, analyses>>

\* Phase 3: combined_analysis = self._intelligent_score_combination(...)
Combine ==
    /\ pc = "combine"
    /\ combined_analysis' =
           _intelligent_score_combination(<<openai_scoring_result, gemini_scoring_result>>,
                                          structured_analysis)
    /\ pc' = "respond"
    /\ UNCHANGED <<prompts, callerVars>>
    /\ UNCHANGED commentVars
    /\ UNCHANGED <<resume_data, job_data, structured_analysis, openai_result,
                   openai_scoring_result, gemini_result, gemini_scoring_result, response>>
    /\ UNCHANGED <<libraryVars, singletonVars, analyses>>

\* Phases 4 and 5: the response dict reads gemini_result; when the name is
\* unbound the read raises and the outer handler returns the error dict
Respond ==
    /\ pc = "respond"
    /\ response' =
           IF gemini_result = Nil
           THEN DualErrorResponse("gemini_result unbound")
           ELSE ComprehensiveResponse(combined_analysis, structured_analysis,
                                      openai_result, openai_scoring_result,
                                      gemini_result, gemini_scoring_result)
    /\ pc' = "done"
    /\ UNCHANGED <<prompts, callerVars>>
    /\ UNCHANGED commentVars
    /\ UNCHANGED <<resume_data, job_data, structured_analysis, openai_result,
                   openai_scoring_result, gemini_result, gemini_scoring_result,
                   combined_analysis>>
    /\ UNCHANGED <<libraryVars, singletonVars, analyses>>

----------------------------------------------------------------------------
(* ScoringResult and _intelligent_score_combination on result dicts of any
   content *)

MaxJudgeScore == 100

JudgeScores == 0..MaxJudgeScore

\* confidence_level as judges write it; "absent" is a dict without the key
JudgeLevels == {"High", "Medium", "Low", "HIGH", "medium", "low", "Unsure", "absent"}

\* transparency.validation.fallback_used; "absent" is a dict without
\* 'transparency'
FallbackFlags == {"absent", "true", "false"}

JudgeResult(provider_key, score, level, fallback, error) ==
    LET keyed == IF provider_key = "openai_results"
                 THEN [openai_results |-> EmptyDict, overall_score |-> score,
                       error_occurred |-> error]
                 ELSE [gemini_results |-> EmptyDict, overall_score |-> score,
                       error_occurred |-> error]
        levelled == IF level = "absent" THEN keyed
                    ELSE Merge(keyed, [confidence_level |-> level])
    IN IF fallback = "absent" THEN levelled
       ELSE Merge(levelled, [transparency |-> [validation |-> [fallback_used |-> fallback = "true"]]])

JudgeResults ==
    {JudgeResult("openai_results", score, level, fallback, error) :
        score \in JudgeScores, level \in JudgeLevels, fallback \in FallbackFlags,
        error \in BOOLEAN}

\* the result dicts of two judges that both answered: any two scores from 1
\* up with level High, and the scores 90 and 50 with any level and fallback
\* flag, either judge holding the 90
JudgePairs ==
    {<<JudgeResult("openai_results", a, "High", "absent", FALSE),
       JudgeResult("gemini_results", b, "High", "absent", FALSE)>> :
        a \in 1..MaxJudgeScore, b \in 1..MaxJudgeScore}
    \cup
    {<<JudgeResult("openai_results", scores[1], level_a, fallback_a, FALSE),
       JudgeResult("gemini_results", scores[2], level_b, fallback_b, FALSE)>> :
        scores \in {<<90, 50>>, <<50, 90>>},
        level_a \in {"High", "Medium", "Low", "Unsure"},
        level_b \in {"High", "Medium", "Low", "Unsure"},
        fallback_a \in {"absent", "true"}, fallback_b \in {"absent", "true"}}

\* scoring_results = [ScoringResult(d) for d in the two result dicts]
BuildScoringResults ==
    /\ pc = "judge"
    /\ openai_scoring_result' = ScoringResult(openai_result)
    /\ gemini_scoring_result' = ScoringResult(gemini_result)
    /\ pc' = "combine"
    /\ UNCHANGED <<resume_data, job_data, structured_analysis, openai_result,
                   gemini_result, combined_analysis, response>>
    /\ UNCHANGED <<prompts, callerVars>>
    /\ UNCHANGED commentVars
    /\ UNCHANGED <<libraryVars, singletonVars, analyses>>

----------------------------------------------------------------------------
(* Candidate comments (utils/structured_comments.py).

   A text is the set of phrases it is made of; phrases are separated so that
   no keyword straddles two of them.  Scores in [0, 1] and point bonuses are
   exact rationals [num, den], den > 0; a claim's strength is counted in
   tenths. *)

RECURSIVE GCD(_, _)
GCD(a, b) == IF b = 0 THEN a ELSE GCD(b, a % b)

\* the rational n/d in lowest terms, d > 0
Rat(n, d) ==
    LET g == GCD(Abs(n), d)
    IN [num |-> n \div g, den |-> d \div g]

Zero == Rat(0, 1)

RatMul(a, b) == Rat(a.num * b.num, a.den * b.den)

RatAdd(a, b) == Rat(a.num * b.den + b.num * a.den, a.den * b.den)

RatLess(a, b) == a.num * b.den < b.num * a.den

RatEq(a, b) == a.num * b.den = b.num * a.den

RatMin(a, b) == IF RatLess(b, a) THEN b ELSE a

RatMax(a, b) == IF RatLess(a, b) THEN b ELSE a

\* the pairs <<a, b>> of strings of the model in which a is a proper substring of b
ProperSubstrings ==
    {<<"java", "javascript">>, <<"python", "python required">>, <<"ui", "python required">>}

\* a in b, for two strings
Inside(a, b) == a = b \/ <<a, b>> \in ProperSubstrings

\* keyword in text
TextHas(text, keyword) == \E phrase \in text : Inside(keyword, phrase)

\* str.lower() on the strings of the model
Lower(str) ==
    CASE str = "Python" -> "python"
      [] str = "Java" -> "java"
      [] str = "Remote" -> "remote"
      [] str = "Junior" -> "junior"
      [] OTHER -> str

tech_keywords ==
    {"python", "javascript", "java", "react", "angular", "vue", "django", "flask",
     "spring", "node.js", "aws", "azure", "gcp", "docker", "kubernetes", "sql",
     "postgresql", "mysql", "mongodb", "redis", "git", "ci/cd", "rest", "api"}

\* f'required {tech}', f'must have {tech}', f'{tech} required' for the
\* technologies the model's phrases name
RequiredPhrases(tech) ==
    CASE tech = "python" -> {"required python", "must have python", "python required"}
      [] tech = "javascript" ->
             {"required javascript", "must have javascript", "javascript required"}
      [] tech = "java" -> {"required java", "must have java", "java required"}
      [] OTHER -> {}

\* required_years is extracted too; no validation reads it
_extract_job_requirements(job) ==
    LET description == Get(job, "description", {})
        title == Get(job, "title", {})
        required_tech == {tech \in tech_keywords :
                             \E phrase \in RequiredPhrases(tech) : TextHas(description, phrase)}
    IN [required_tech |-> required_tech,
        preferred_tech |-> {tech \in tech_keywords \ required_tech : TextHas(description, tech)},
        work_arrangement |->
            IF \E word \in {"remote", "work from home", "distributed"} : TextHas(description, word)
            THEN "remote"
            ELSE IF \E word \in {"office", "onsite", "on-site", "in-person"} :
                        TextHas(description, word)
            THEN "onsite"
            ELSE IF TextHas(description, "hybrid") THEN "hybrid"
            ELSE "flexible",
        experience_level |->
            IF \E word \in {"senior", "lead", "principal", "staff"} : TextHas(title, word)
            THEN "senior"
            ELSE IF \E word \in {"junior", "entry", "graduate", "intern"} : TextHas(title, word)
            THEN "junior"
            ELSE "mid",
        description |-> description,
        title |-> title]

\* MultiDimensionalAnalysis built from the analyzer's JSON reply; every
\* alignment_score starts at 0.0
_parse_multi_dimensional_response(reply) ==
    LET technical_data == Get(reply, "technical", EmptyDict)
        work_data == Get(reply, "work_arrangement", EmptyDict)
        availability_data == Get(reply, "availability", EmptyDict)
        role_data == Get(reply, "role_focus", EmptyDict)
        experience_data == Get(reply, "experience_level", EmptyDict)
    IN [technical |->
            [claimed_skills |-> Get(technical_data, "claimed_skills", <<>>),
             experience_claims |-> Get(technical_data, "experience_claims", <<>>),
             technical_confidence |-> Get(technical_data, "technical_confidence", 0),
             alignment_score |-> Zero],
        work_arrangement |->
            [preferred_arrangement |-> Get(work_data, "preferred_arrangement", ""),
             arrangement_strength |-> Get(work_data, "arrangement_strength", 0),
             alignment_score |-> Zero],
        availability |->
            [availability_timeline |-> Get(availability_data, "availability_timeline", ""),
             availability_urgency |-> Get(availability_data, "availability_urgency", 0),
             alignment_score |-> Zero],
        role_focus |->
            [role_interests |-> Get(role_data, "role_interests", <<>>),
             focus_areas |-> Get(role_data, "focus_areas", <<>>),
             alignment_score |-> Zero],
        experience_level |->
            [experience_level_claim |-> Get(experience_data, "experience_level_claim", ""),
             confidence_level |-> Get(experience_data, "confidence_level", 0),
             alignment_score |-> Zero]]

\* GPTMultiDimensionalAnalyzer._validate_technical_alignment
_validate_technical_alignment(technical, job_req) ==
    LET required_tech == Get(job_req, "required_tech", {})
        preferred_tech == Get(job_req, "preferred_tech", {})
        claimed_lower == {Lower(skill) : skill \in Range(technical.claimed_skills)}
        required_matches == Cardinality({tech \in required_tech : tech \in claimed_lower})
        preferred_matches == Cardinality({tech \in preferred_tech : tech \in claimed_lower})
        Related(tech) == \E skill \in claimed_lower : Inside(tech, skill) \/ Inside(skill, tech)
        partial_required == Cardinality({tech \in required_tech : Related(tech)})
        partial_preferred == Cardinality({tech \in preferred_tech : Related(tech)})
        required_score == IF required_tech # {}
                          THEN Rat(2 * required_matches + partial_required,
                                   2 * Cardinality(required_tech))
                          ELSE Zero
        preferred_score == IF preferred_tech # {}
                           THEN Rat(2 * preferred_matches + partial_preferred,
                                    2 * Cardinality(preferred_tech))
                           ELSE Zero
        base_score == IF required_tech # {} /\ preferred_tech # {}
                      THEN RatAdd(RatMul(required_score, Rat(7, 10)),
                                  RatMul(preferred_score, Rat(3, 10)))
                      ELSE IF required_tech # {} THEN required_score
                      ELSE preferred_score
        confidence_multiplier == Rat(Max2(5, technical.technical_confidence), 10)
    IN IF technical.claimed_skills = <<>> /\ technical.experience_claims = <<>> THEN Zero
       ELSE IF required_tech \cup preferred_tech = {} THEN Zero
       ELSE IF base_score.num = 0 THEN Zero
       ELSE RatMin(Rat(1, 1), RatMul(base_score, confidence_multiplier))

\* WorkArrangementBase with a small positive score for a misaligned preference
WorkArrangementBase_Consolation(user_pref, job_arrangement) ==
    IF user_pref = job_arrangement THEN 10
    ELSE IF user_pref = "flexible" \/ job_arrangement = "flexible" THEN 8
    ELSE IF user_pref = "hybrid" /\ job_arrangement \in {"remote", "onsite"} THEN 6
    ELSE IF user_pref = "remote" /\ job_arrangement = "hybrid" THEN 7
    ELSE IF user_pref = "onsite" /\ job_arrangement = "hybrid" THEN 5
    ELSE 1

\* the score of a preference against the job's arrangement, in tenths
WorkArrangementBase(user_pref, job_arrangement) ==
    IF user_pref = job_arrangement THEN 10
    ELSE IF user_pref = "flexible" \/ job_arrangement = "flexible" THEN 8
    ELSE IF user_pref = "hybrid" /\ job_arrangement \in {"remote", "onsite"} THEN 6
    ELSE IF user_pref = "remote" /\ job_arrangement = "hybrid" THEN 7
    ELSE IF user_pref = "onsite" /\ job_arrangement = "hybrid" THEN 5
    ELSE 0

\* GPTMultiDimensionalAnalyzer._validate_work_arrangement_alignment
_validate_work_arrangement_alignment(work, job_req) ==
    IF work.preferred_arrangement = "" \/ work.arrangement_strength < 3 THEN Zero
    ELSE Rat(WorkArrangementBase(Lower(work.preferred_arrangement),
                                 Get(job_req, "work_arrangement", "flexible"))
                 * work.arrangement_strength,
             100)

urgent_keywords == {"urgent", "immediate", "asap", "start immediately", "right away"}

\* the score of a timeline, in tenths
AvailabilityBase(timeline, job_is_urgent) ==
    IF timeline = "immediate" THEN 10
    ELSE IF timeline \in {"weeks", "flexible"} THEN (IF job_is_urgent THEN 7 ELSE 8)
    ELSE IF timeline = "months" THEN (IF job_is_urgent THEN 0 ELSE 4)
    ELSE 5

\* GPTMultiDimensionalAnalyzer._validate_availability_alignment
_validate_availability_alignment(availability, job_req) ==
    IF availability.availability_timeline = "" \/ availability.availability_urgency < 3 THEN Zero
    ELSE LET job_desc == Get(job_req, "description", {})
             job_is_urgent == \E keyword \in urgent_keywords : TextHas(job_desc, keyword)
         IN Rat(AvailabilityBase(Lower(availability.availability_timeline), job_is_urgent)
                    * availability.availability_urgency,
                100)

role_keywords ==
    [frontend |-> {"frontend", "front-end", "ui", "ux", "react", "angular", "vue", "css",
                   "html", "javascript"},
     backend |-> {"backend", "back-end", "api", "server", "database", "microservices", "rest"},
     fullstack |-> {"fullstack", "full-stack", "full stack"},
     data |-> {"data", "analytics", "machine learning", "ml", "ai", "analysis", "scientist"},
     devops |-> {"devops", "infrastructure", "deployment", "ci/cd", "docker", "kubernetes", "aws"},
     mobile |-> {"mobile", "ios", "android", "react native", "flutter", "app"},
     web |-> {"web", "website", "application", "development"}]

\* GPTMultiDimensionalAnalyzer._validate_role_focus_alignment
_validate_role_focus_alignment(role_focus, job_req) ==
    LET job_title == Get(job_req, "title", {})
        job_desc == Get(job_req, "description", {})
        job_focus == {focus_type \in DOMAIN role_keywords :
                         \E keyword \in role_keywords[focus_type] :
                             TextHas(job_title, keyword) \/ TextHas(job_desc, keyword)}
        user_interests == {Lower(interest) :
                              interest \in Range(role_focus.role_interests \o role_focus.focus_areas)}
        alignment_count ==
            Cardinality({focus_type \in job_focus :
                            \E keyword \in role_keywords[focus_type] :
                                \/ TextHas(user_interests, keyword)
                                \/ \E user_word \in user_interests : Inside(user_word, keyword)})
    IN IF role_focus.role_interests = <<>> /\ role_focus.focus_areas = <<>> THEN Zero
       ELSE IF job_focus = {} THEN Zero
       ELSE IF alignment_count > 0 THEN Rat(alignment_count, Cardinality(job_focus))
       ELSE Zero

\* level_scores.get((user_level, job_level), 0.0), in tenths
level_scores(user_level, job_level) ==
    CASE <<user_level, job_level>> = <<"junior", "junior">> -> 10
      [] <<user_level, job_level>> = <<"junior", "mid">> -> 6
      [] <<user_level, job_level>> = <<"mid", "mid">> -> 10
      [] <<user_level, job_level>> = <<"mid", "senior">> -> 5
      [] <<user_level, job_level>> = <<"senior", "senior">> -> 10
      [] <<user_level, job_level>> = <<"expert", "senior">> -> 10
      [] OTHER -> 0

\* GPTMultiDimensionalAnalyzer._validate_experience_level_alignment
_validate_experience_level_alignment(experience, job_req) ==
    IF experience.experience_level_claim = "" \/ experience.confidence_level < 3 THEN Zero
    ELSE Rat(level_scores(Lower(experience.experience_level_claim),
                          Get(job_req, "experience_level", "mid"))
                 * experience.confidence_level,
             100)

\* GPTMultiDimensionalAnalyzer.analyze_comments for comments that are not
\* blank, given the analyzer's reply
analyze_comments(job, reply) ==
    LET job_requirements == _extract_job_requirements(job)
        parsed == _parse_multi_dimensional_response(reply)
    IN [technical |->
            [parsed.technical EXCEPT !.alignment_score =
                _validate_technical_alignment(parsed.technical, job_requirements)],
        work_arrangement |->
            [parsed.work_arrangement EXCEPT !.alignment_score =
                _validate_work_arrangement_alignment(parsed.work_arrangement, job_requirements)],
        availability |->
            [parsed.availability EXCEPT !.alignment_score =
                _validate_availability_alignment(parsed.availability, job_requirements)],
        role_focus |->
            [parsed.role_focus EXCEPT !.alignment_score =
                _validate_role_focus_alignment(parsed.role_focus, job_requirements)],
        experience_level |->
            [parsed.experience_level EXCEPT !.alignment_score =
                _validate_experience_level_alignment(parsed.experience_level, job_requirements)]]

\* the point caps of the five dimensions
TechnicalMaxPoints == 8
WorkArrangementMaxPoints == 4
AvailabilityMaxPoints == 3
RoleFocusMaxPoints == 3
ExperienceLevelMaxPoints == 2

\* the dimension of the analysis behind each key of the bonuses map
BonusDimension(key) == IF key = "technical_alignment" THEN "technical" ELSE key

MaxPoints(key) ==
    CASE key = "technical_alignment" -> TechnicalMaxPoints
      [] key = "work_arrangement" -> WorkArrangementMaxPoints
      [] key = "availability" -> AvailabilityMaxPoints
      [] key = "role_focus" -> RoleFocusMaxPoints
      [] key = "experience_level" -> ExperienceLevelMaxPoints

BonusKeys == {"technical_alignment", "work_arrangement", "availability", "role_focus",
              "experience_level"}

\* calculate_multi_dimensional_bonuses with an entry for every dimension
calculate_multi_dimensional_bonuses_AllKeys(analysis) ==
    [key \in BonusKeys |->
        RatMul(analysis[BonusDimension(key)].alignment_score, Rat(MaxPoints(key), 1))]

calculate_multi_dimensional_bonuses(analysis) ==
    [key \in {k \in BonusKeys : analysis[BonusDimension(k)].alignment_score.num > 0} |->
        RatMul(analysis[BonusDimension(key)].alignment_score, Rat(MaxPoints(key), 1))]

\* sum(bonuses.values()); the sum of no values is the integer 0
RECURSIVE SumBonuses(_, _)
SumBonuses(bonuses, keys) ==
    IF keys = {} THEN Zero
    ELSE LET key == CHOOSE k \in keys : TRUE
         IN RatAdd(bonuses[key], SumBonuses(bonuses, keys \ {key}))

TotalBonus(bonuses) == SumBonuses(bonuses, DOMAIN bonuses)

\* str.title() on the strings of the model
Title(str) ==
    CASE str \in {"remote", "Remote"} -> "Remote"
      [] str = "onsite" -> "Onsite"
      [] str = "hybrid" -> "Hybrid"
      [] str = "flexible" -> "Flexible"
      [] str = "immediate" -> "Immediate"
      [] str = "weeks" -> "Weeks"
      [] str = "months" -> "Months"
      [] str \in {"junior", "Junior"} -> "Junior"
      [] str = "mid" -> "Mid"
      [] str = "senior" -> "Senior"
      [] OTHER -> str

\* list[:n]
Take(list, n) == SubSeq(list, 1, Min2(n, Len(list)))

\* f"{total_bonus:.1f}" in tenths: the nearest tenth, either neighbour when
\* the value lies midway between two
Format1f(r) ==
    LET scaled == (20 * r.num) \div r.den
        exact == (20 * r.num) % r.den = 0
    IN IF exact /\ scaled % 2 = 1 THEN {scaled \div 2, scaled \div 2 + 1}
       ELSE {(scaled + 1) \div 2}

\* the feedback string as the sequence of its " | "-separated parts, each
\* part a tuple <<heading, value, qualifier>>
generate_multi_dimensional_feedback(analysis, bonuses, total_text) ==
    LET Above(score, tenths) == RatLess(Rat(tenths, 10), score)
        tech_feedback ==
            IF analysis.technical.claimed_skills = <<>> THEN <<>>
            ELSE << <<"Technical Skills", Take(analysis.technical.claimed_skills, 3),
                      IF Above(analysis.technical.alignment_score, 7) THEN "Strong match"
                      ELSE IF Above(analysis.technical.alignment_score, 3) THEN "Partial match"
                      ELSE "Limited match">> >>
        work_feedback ==
            IF analysis.work_arrangement.preferred_arrangement = "" THEN <<>>
            ELSE << <<"Work Style", Title(analysis.work_arrangement.preferred_arrangement),
                      IF Above(analysis.work_arrangement.alignment_score, 7) THEN "Aligned"
                      ELSE IF Above(analysis.work_arrangement.alignment_score, 0) THEN "Compatible"
                      ELSE "Misaligned">> >>
        avail_feedback ==
            IF analysis.availability.availability_timeline = "" THEN <<>>
            ELSE << <<"Availability", Title(analysis.availability.availability_timeline),
                      IF Above(analysis.availability.alignment_score, 7) THEN "Excellent"
                      ELSE IF Above(analysis.availability.alignment_score, 3) THEN "Good"
                      ELSE "">> >>
        role_feedback ==
            IF analysis.role_focus.role_interests = <<>> THEN <<>>
            ELSE << <<"Focus Areas", Take(analysis.role_focus.role_interests, 2),
                      IF Above(analysis.role_focus.alignment_score, 7) THEN "Well aligned"
                      ELSE IF Above(analysis.role_focus.alignment_score, 3) THEN "Somewhat aligned"
                      ELSE "">> >>
        exp_feedback ==
            IF analysis.experience_level.experience_level_claim = "" THEN <<>>
            ELSE << <<"Experience Level", Title(analysis.experience_level.experience_level_claim),
                      IF Above(analysis.experience_level.alignment_score, 7) THEN "Good fit"
                      ELSE IF Above(analysis.experience_level.alignment_score, 3)
                      THEN "Acceptable fit"
                      ELSE "">> >>
        bonus_summary ==
            IF TotalBonus(bonuses).num > 0
            THEN << <<"Total Alignment Bonus", total_text, "points">> >>
            ELSE <<>>
        feedback_parts == tech_feedback \o work_feedback \o avail_feedback \o role_feedback
                              \o exp_feedback \o bonus_summary
    IN IF feedback_parts = <<>> THEN << <<"No specific claims found", "", "">> >>
       ELSE feedback_parts

\* str.strip() on the comment texts of the model
Strip(str) == IF str = "   " THEN "" ELSE str

\* not comments or not comments.strip()
IsBlank(str) == str = "" \/ Strip(str) = ""

\* the analyzer's call failed, or its reply was not JSON
ReplyRaises(reply) == "exception" \in DOMAIN reply

\* the values process_user_comments can return, given the analyzer's reply;
\* an exception of the analyzer leaves the function
process_user_comments(comment_text, job, reply) ==
    IF IsBlank(comment_text)
    THEN {[multi_dimensional_analysis |-> EmptyDict,
           alignment_scores |-> EmptyDict,
           scoring_adjustments |-> EmptyDict,
           structured_feedback |-> << <<"No context provided", "", "">> >>,
           total_bonus |-> Zero]}
    ELSE IF ReplyRaises(reply) THEN {[exception |-> reply.exception]}
    ELSE LET analysis == analyze_comments(job, reply)
             bonuses == calculate_multi_dimensional_bonuses(analysis)
         IN {[multi_dimensional_analysis |-> analysis,
              alignment_scores |->
                  [technical |-> analysis.technical.alignment_score,
                   work_arrangement |-> analysis.work_arrangement.alignment_score,
                   availability |-> analysis.availability.alignment_score,
                   role_focus |-> analysis.role_focus.alignment_score,
                   experience_level |-> analysis.experience_level.alignment_score],
              scoring_adjustments |-> bonuses,
              structured_feedback |->
                  generate_multi_dimensional_feedback(analysis, bonuses, total_text),
              total_bonus |-> TotalBonus(bonuses)] :
                 total_text \in Format1f(TotalBonus(bonuses))}

----------------------------------------------------------------------------
(* Inputs of process_user_comments *)

\* comment texts: empty, whitespace only, and a text the analyzer reads
CommentTexts == {"", "   ", "candidate comment"}

\* job descriptions, put together from what they say about each dimension
ArrangementPhrases == {{}, {"remote"}, {"office"}, {"hybrid"}}
UrgencyPhrases == {{}, {"urgent"}}
TechPhrases == {{}, {"python"}, {"python required"}, {"javascript"},
                {"python required", "javascript"}}
RolePhrases == {{}, {"backend"}}
JobTitles == {{"developer"}, {"senior", "developer"}, {"junior", "developer"}}

CommentJobs ==
    {[description |-> a \cup u \cup t \cup r, title |-> title] :
        a \in ArrangementPhrases, u \in UrgencyPhrases, t \in TechPhrases,
        r \in RolePhrases, title \in JobTitles}

\* strengths and confidences the analyzer reports, in tenths; float() takes
\* whatever number the reply holds
Strengths == {-5, 2, 3, 10, 15}
ClaimedSkillLists == {<<>>, <<"Python">>, <<"Java">>}
PreferredArrangements == {"", "Remote", "onsite", "hybrid", "flexible"}
AvailabilityTimelines == {"", "immediate", "weeks", "months"}
RoleInterestLists == {<<>>, <<"backend">>}
ExperienceLevelClaims == {"", "junior", "mid", "senior"}

AnalyzerJson ==
    {[technical |-> [claimed_skills |-> skills, technical_confidence |-> strength],
      work_arrangement |-> [preferred_arrangement |-> arrangement,
                            arrangement_strength |-> strength],
      availability |-> [availability_timeline |-> timeline,
                        availability_urgency |-> strength],
      role_focus |-> [role_interests |-> interests],
      experience_level |-> [experience_level_claim |-> level,
                            confidence_level |-> strength]] :
        skills \in ClaimedSkillLists, arrangement \in PreferredArrangements,
        timeline \in AvailabilityTimelines, interests \in RoleInterestLists,
        level \in ExperienceLevelClaims, strength \in Strengths}

\* a JSON object, an object without any of the sections, or a failed call
AnalyzerReplies ==
    AnalyzerJson \cup {EmptyDict} \cup {[exception |-> kind] : kind \in FailureKinds}

CommentInit ==
    /\ pc = "comments"
    /\ comments \in CommentTexts
    /\ comment_job \in CommentJobs
    /\ comment_reply = Nil
    /\ comment_result = Nil

\* process_user_comments returns early on blank comments, without a call
\* of the analyzer
ProcessBlankComments ==
    /\ pc = "comments"
    /\ IsBlank(comments)
    /\ comment_result' \in process_user_comments(comments, comment_job, Nil)
    /\ UNCHANGED <<prompts, callerVars>>
    /\ pc' = "commented"
    /\ UNCHANGED <<comments, comment_job, comment_reply>>
    /\ UNCHANGED <<resume_data, job_data, structured_analysis, openai_result,
                   openai_scoring_result, gemini_result, gemini_scoring_result,
                   combined_analysis, response>>
    /\ UNCHANGED <<libraryVars, singletonVars, analyses>>

\* process_user_comments on comments that are not blank: the analyzer is
\* called and its reply parsed, validated and turned into bonuses
ProcessUserComments ==
    /\ pc = "comments"
    /\ ~IsBlank(comments)
    /\ \E reply \in AnalyzerReplies :
           /\ comment_reply' = reply
           /\ comment_result' \in process_user_comments(comments, comment_job, reply)
    /\ UNCHANGED <<prompts, callerVars>>
    /\ pc' = "commented"
    /\ UNCHANGED <<comments, comment_job>>
    /\ UNCHANGED <<resume_data, job_data, structured_analysis, openai_result,
                   openai_scoring_result, gemini_result, gemini_scoring_result,
                   combined_analysis, response>>
    /\ UNCHANGED <<libraryVars, singletonVars, analyses>>

----------------------------------------------------------------------------
(* The callers: score_resume (backend/main.py), run_evaluation
   (test_resume_evaluation.py) and BaseScoringEngine._create_base_prompt.
   The job posting is one dict: the engines read its skills and level, the
   comment analysis its description and title. *)

ServiceResumes ==
    {Merge(resume, [full_text |-> <<"resume text">>]) :
        resume \in {r \in Resumes : r.skills = <<"Python ">> /\ r.experience = <<>>
                                      /\ r.education = <<>>}}

ServiceJobs ==
    {Merge(job, [skills |-> <<"python">>, experience_level |-> "senior"]) :
        job \in {j \in CommentJobs :
                    /\ j.title = {"senior", "developer"}
                    /\ {"python required", "urgent", "backend"} \subseteq j.description
                    /\ "javascript" \notin j.description
                    /\ "hybrid" \notin j.description}}

\* what the analyzer reads in the candidate's comment
ServiceAnalyzerReplies ==
    {reply \in AnalyzerJson :
        /\ reply.technical.claimed_skills = <<"Python">>
        /\ reply.technical.technical_confidence = 10
        /\ reply.work_arrangement.preferred_arrangement \in {"Remote", "onsite"}
        /\ reply.availability.availability_timeline = "immediate"
        /\ reply.role_focus.role_interests = <<"backend">>
        /\ reply.experience_level.experience_level_claim \in {"senior", "junior"}}
        \cup {EmptyDict, [exception |-> "network_error"]}

Models == {"dual", "openai", "gemini"}

\* score_resume, up to the call of the engine: the comment is attached to the
\* resume and appended to its text
AttachUserComments ==
    /\ pc = "score_resume"
    /\ resume_data' =
           IF ~IsBlank(comments)
           THEN Merge(resume_data,
                      [user_comments |-> Strip(comments),
                       full_text |-> Get(resume_data, "full_text", <<>>)
                                         \o <<"Additional Context from User:",
                                              Strip(comments)>>])
           ELSE resume_data
    /\ pc' = CASE model = "openai" -> "openai_engine"
                [] model = "gemini" -> "gemini_engine"
                [] OTHER -> "start"
    /\ UNCHANGED <<job_data, structured_analysis, openai_result, openai_scoring_result,
                   gemini_result, gemini_scoring_result, combined_analysis, response>>
    /\ UNCHANGED <<prompts, callerVars>>
    /\ UNCHANGED commentVars
    /\ UNCHANGED <<libraryVars, singletonVars, analyses>>

\* score_resume with model == "openai": the engine is called directly
ScoreWithOpenAI ==
    /\ pc = "openai_engine"
    /\ \E reply \in BackendReplies :
           response' = OpenAI_calculate_score(resume_data, job_data, reply)
    /\ prompts' = [prompts EXCEPT !.openai =
                       _create_enhanced_prompt(resume_data, job_data,
                           _analyze_structured_data(resume_data, job_data))]
    /\ pc' = "done"
    /\ UNCHANGED <<resume_data, job_data, structured_analysis, openai_result,
                   openai_scoring_result, gemini_result, gemini_scoring_result,
                   combined_analysis>>
    /\ UNCHANGED callerVars
    /\ UNCHANGED commentVars
    /\ UNCHANGED <<libraryVars, singletonVars>>
    /\ analyses' = analyses + 1

\* score_resume with model == "gemini"
ScoreWithGemini ==
    /\ pc = "gemini_engine"
    /\ \E reply \in BackendReplies :
           response' = Gemini_calculate_score(resume_data, job_data, MinimalAnalysis, reply)
    /\ prompts' = [prompts EXCEPT !.gemini =
                       _create_gemini_prompt(resume_data, job_data, MinimalAnalysis)]
    /\ pc' = "done"
    /\ UNCHANGED <<resume_data, job_data, structured_analysis, openai_result,
                   openai_scoring_result, gemini_result, gemini_scoring_result,
                   combined_analysis>>
    /\ UNCHANGED callerVars
    /\ UNCHANGED commentVars
    /\ UNCHANGED <<libraryVars, singletonVars, analyses>>

\* score_resume after the engine returned
ReturnScore ==
    /\ pc = "done"
    /\ api_response' =
           [score |-> Get(response, "final_score", Get(response, "overall_score", 0)),
            feedback |-> response,
            job_title |-> Get(job_data, "title", "Unknown"),
            company |-> Get(job_data, "company", "Unknown"),
            model_used |-> model]
    /\ pc' = "returned"
    /\ UNCHANGED dualVarsButPc
    /\ UNCHANGED <<prompts, model, evaluation>>
    /\ UNCHANGED commentVars
    /\ UNCHANGED <<libraryVars, singletonVars, analyses>>

\* the "summary" of run_evaluation's result
EvaluationSummary(evaluation_result, comment_analysis) ==
    [overall_score |-> Get(evaluation_result, "overall_score", 0),
     comment_bonus |-> Get(comment_analysis, "total_bonus", Zero),
     total_with_bonus |-> RatAdd(Rat(Get(evaluation_result, "overall_score", 0), 1),
                                 Get(comment_analysis, "total_bonus", Zero))]

\* ResumeEvaluationTester.run_evaluation: the comments are analysed, the
\* OpenAI engine scores the resume, and the summary adds the two; an
\* exception of the comment analysis leaves the function
RunEvaluation ==
    /\ pc = "run_evaluation"
    /\ \E comment_analysis \in process_user_comments(comments, job_data, comment_reply) :
       \E reply \in BackendReplies :
           LET evaluation_result ==
                   Merge(OpenAI_calculate_score(resume_data, job_data, reply),
                         [user_comments_analysis |-> comment_analysis])
           IN IF "exception" \in DOMAIN comment_analysis
              THEN /\ evaluation' = comment_analysis
                   /\ UNCHANGED <<comment_result, response, prompts, analyses>>
              ELSE /\ analyses' = analyses + 1
                   /\ comment_result' = comment_analysis
                   /\ response' = evaluation_result
                   /\ prompts' = [prompts EXCEPT !.openai =
                                      _create_enhanced_prompt(resume_data, job_data,
                                          _analyze_structured_data(resume_data, job_data))]
                   /\ evaluation' =
                          [user_comments |-> [original_text |-> comments,
                                              analysis |-> comment_analysis],
                           evaluation_results |-> evaluation_result,
                           summary |-> EvaluationSummary(evaluation_result,
                                                         comment_analysis)]
    /\ pc' = "evaluated"
    /\ UNCHANGED <<resume_data, job_data, structured_analysis, openai_result,
                   openai_scoring_result, gemini_result, gemini_scoring_result,
                   combined_analysis>>
    /\ UNCHANGED <<model, api_response>>
    /\ UNCHANGED <<comments, comment_job, comment_reply>>
    /\ UNCHANGED <<libraryVars, singletonVars>>

\* BaseScoringEngine._create_base_prompt: the comment analysis is run and a
\* candidate-context section is put together from it when it earns a bonus,
\* but the prompt that is returned has no place for the section
_create_base_prompt(resume, job, structured_comments_data) ==
    [position |-> Get(job, "title", "Not specified"),
     experience_level |-> Get(job, "experience_level", "not specified"),
     resume_text |-> Get(resume, "full_text", <<"Not available">>),
     job_description |-> Get(job, "description", "Not available")]

\* one call of _create_base_prompt
BuildBasePrompt ==
    /\ pc = "base_prompt"
    /\ IF Get(resume_data, "user_comments", "") = ""
       THEN /\ prompts' = [prompts EXCEPT !.base =
                               _create_base_prompt(resume_data, job_data, EmptyDict)]
            /\ UNCHANGED comment_result
       ELSE \E structured_comments_data \in
                   process_user_comments(resume_data.user_comments, job_data, comment_reply) :
               IF "exception" \in DOMAIN structured_comments_data
               THEN /\ prompts' = [prompts EXCEPT !.base = structured_comments_data]
                    /\ UNCHANGED comment_result
               ELSE /\ comment_result' = structured_comments_data
                    /\ prompts' = [prompts EXCEPT !.base =
                                       _create_base_prompt(resume_data, job_data,
                                                           structured_comments_data)]
    /\ pc' = "prompted"
    /\ UNCHANGED dualVarsButPc
    /\ UNCHANGED callerVars
    /\ UNCHANGED <<comments, comment_job, comment_reply>>
    /\ UNCHANGED <<libraryVars, singletonVars, analyses>>

----------------------------------------------------------------------------
(* SkillsProcessor (utils/skills_matcher.py) *)

\* the skill strings of resumes and of job postings
ResumeSkillStrings == {"ReactJS", "Node", "Javascript", "MySQL", "React"}

JobSkillStrings == {"React", "Node.js", "JavaScript", "PostgreSQL", "Java"}

\* normalize_skill on the skill strings: lower case, punctuation removed,
\* then the canonical name of the alias ('reactjs' -> 'react', 'nodejs' ->
\* 'node'); 'java' is an alias of its own
normalize_skill(skill) ==
    CASE skill \in {"React", "ReactJS"} -> "react"
      [] skill \in {"Node", "Node.js"} -> "node"
      [] skill \in {"JavaScript", "Javascript"} -> "javascript"
      [] skill = "Java" -> "java"
      [] skill = "MySQL" -> "mysql"
      [] skill = "PostgreSQL" -> "postgresql"
      [] OTHER -> skill

\* SequenceMatcher(None, norm1, norm2).ratio(): twice the matched characters
\* over the total length, on the normalized names
SequenceMatcherRatio(norm1, norm2) ==
    LET pair == {norm1, norm2}
    IN CASE pair = {"java", "javascript"} -> Rat(4, 7)
         [] pair = {"java", "react"} -> Rat(2, 9)
         [] pair = {"javascript", "mysql"} -> Rat(2, 15)
         [] pair = {"javascript", "postgresql"} -> Rat(1, 5)
         [] pair = {"javascript", "react"} -> Rat(2, 5)
         [] pair = {"mysql", "postgresql"} -> Rat(2, 5)
         [] pair = {"node", "postgresql"} -> Rat(2, 7)
         [] pair = {"node", "react"} -> Rat(2, 9)
         [] pair = {"postgresql", "react"} -> Rat(4, 15)
         [] OTHER -> Zero

\* norm1 in norm2 or norm2 in norm1
OneInOther(norm1, norm2) == {norm1, norm2} = {"java", "javascript"}

fuzzy_similarity(skill1, skill2) ==
    LET norm1 == normalize_skill(skill1)
        norm2 == normalize_skill(skill2)
        similarity == SequenceMatcherRatio(norm1, norm2)
    IN IF norm1 = norm2 THEN Rat(1, 1)
       ELSE IF OneInOther(norm1, norm2) THEN RatMax(similarity, Rat(4, 5))
       ELSE similarity

FUZZY_THRESHOLD == Rat(3, 4)

\* BestResumeSkill without the skip of the resume skills already used
BestResumeSkill_Reused(job_skill, resume_skill_strings, used_resume_skills) ==
    LET reaching == {i \in 1..Len(resume_skill_strings) :
                        ~RatLess(fuzzy_similarity(job_skill, resume_skill_strings[i]),
                                 FUZZY_THRESHOLD)}
    IN IF reaching = {} THEN 0
       ELSE CHOOSE i \in reaching :
                \A k \in reaching :
                    \/ RatLess(fuzzy_similarity(job_skill, resume_skill_strings[k]),
                               fuzzy_similarity(job_skill, resume_skill_strings[i]))
                    \/ /\ RatEq(fuzzy_similarity(job_skill, resume_skill_strings[k]),
                                fuzzy_similarity(job_skill, resume_skill_strings[i]))
                       /\ i <= k

\* the inner loop of match_skills: the index of the first resume skill, among
\* those not used yet, of the highest similarity that reaches the threshold;
\* 0 when there is none
BestResumeSkill(job_skill, resume_skill_strings, used_resume_skills) ==
    LET reaching == {i \in (1..Len(resume_skill_strings)) \ used_resume_skills :
                        ~RatLess(fuzzy_similarity(job_skill, resume_skill_strings[i]),
                                 FUZZY_THRESHOLD)}
    IN IF reaching = {} THEN 0
       ELSE CHOOSE i \in reaching :
                \A k \in reaching :
                    \/ RatLess(fuzzy_similarity(job_skill, resume_skill_strings[k]),
                               fuzzy_similarity(job_skill, resume_skill_strings[i]))
                    \/ /\ RatEq(fuzzy_similarity(job_skill, resume_skill_strings[k]),
                                fuzzy_similarity(job_skill, resume_skill_strings[i]))
                       /\ i <= k

\* the outer loop of match_skills over the job skills
RECURSIVE MatchLoop(_, _, _, _, _)
MatchLoop(job_skill_strings, resume_skill_strings, used_resume_skills, matched_skills, missing_skills) ==
    IF job_skill_strings = <<>>
    THEN [matched_skills |-> matched_skills, missing_skills |-> missing_skills]
    ELSE LET job_skill == Head(job_skill_strings)
             best_resume_skill ==
                 BestResumeSkill(job_skill, resume_skill_strings, used_resume_skills)
             best_similarity ==
                 fuzzy_similarity(job_skill, resume_skill_strings[best_resume_skill])
         IN IF best_resume_skill # 0
            THEN MatchLoop(Tail(job_skill_strings), resume_skill_strings,
                           used_resume_skills \cup {best_resume_skill},
                           Append(matched_skills,
                                  [job_skill |-> job_skill,
                                   resume_skill |-> resume_skill_strings[best_resume_skill],
                                   similarity |-> best_similarity,
                                   match_type |-> IF RatLess(best_similarity, Rat(19, 20))
                                                  THEN "fuzzy" ELSE "exact"]),
                           missing_skills)
            ELSE MatchLoop(Tail(job_skill_strings), resume_skill_strings,
                           used_resume_skills, matched_skills,
                           Append(missing_skills, job_skill))

\* a list argument is [items |-> <<...>>], None is Nil; `not x` holds of None
\* and of the empty list
PyList(items) == [items |-> items]

Falsy(list) == list = Nil \/ list.items = <<>>

\* SkillsProcessor.match_skills; the early return takes len() of both
\* arguments, which raises TypeError on None.  'matching_details' is left out
match_skills(resume_skills, job_skills) ==
    IF Falsy(resume_skills) \/ Falsy(job_skills)
    THEN IF job_skills = Nil \/ resume_skills = Nil
         THEN [exception |-> "TypeError"]
         ELSE [match_percentage |-> Zero,
               matched_skills |-> <<>>,
               missing_skills |-> job_skills.items,
               total_job_skills |-> Len(job_skills.items),
               total_resume_skills |-> Len(resume_skills.items)]
    ELSE LET looped == MatchLoop(job_skills.items, resume_skills.items, {}, <<>>, <<>>)
         IN [match_percentage |->
                 Rat(100 * Len(looped.matched_skills), Len(job_skills.items)),
             matched_skills |-> looped.matched_skills,
             missing_skills |-> looped.missing_skills,
             total_job_skills |-> Len(job_skills.items),
             total_resume_skills |-> Len(resume_skills.items)]

MaxSkills == 3

\* the lists of at most MaxSkills different strings of a set
RECURSIVE ListsOver(_, _)
ListsOver(strings, n) ==
    IF n = 0 THEN {<<>>}
    ELSE LET shorter == ListsOver(strings, n - 1)
         IN shorter \cup {Append(list, x) : list \in {l \in shorter : Len(l) = n - 1},
                                            x \in strings}

SkillLists(strings) ==
    {list \in ListsOver(strings, MaxSkills) :
        \A i, k \in 1..Len(list) : i # k => list[i] # list[k]}

\* a call of the legacy matcher; a list may be missing (None)
MatchCalls ==
    {[function |-> "match_skills", resume_skills |-> r, job_skills |-> j] :
        r \in {PyList(l) : l \in SkillLists(ResumeSkillStrings)} \cup {Nil},
        j \in {PyList(l) : l \in SkillLists(JobSkillStrings)} \cup {Nil}}

MatchSkills ==
    /\ call # Nil
    /\ call.function = "match_skills"
    /\ call_result = Nil
    /\ call_result' = match_skills(call.resume_skills, call.job_skills)
    /\ UNCHANGED <<call, singletonVars, requestVars>>

----------------------------------------------------------------------------
(* EmbeddingSkillsMatcher.calculate_semantic_similarity
   (utils/embedding_matcher.py) and BaseScoringEngine._enhanced_skills_match
   (utils/base_scoring_engine.py).  The cosine similarities of the
   embeddings are an input, in tenths; without a loaded model
   get_embeddings returns an empty array. *)

CosineValues == {3, 5, 8}

\* the dict of both early returns
NoSimilarity ==
    [similarity_score |-> Zero,
     matched_skills |-> <<>>,
     skill_matches |-> <<>>,
     coverage_percentage |-> Zero]

\* np.argmax(similarity_matrix[:, j]): the first row of the highest value
ArgMax(similarity_matrix, rows, j) ==
    CHOOSE i \in 1..rows :
        /\ \A k \in 1..rows : similarity_matrix[<<k, j>>] <= similarity_matrix[<<i, j>>]
        /\ \A k \in 1..(i - 1) : similarity_matrix[<<k, j>>] < similarity_matrix[<<i, j>>]

\* the loop over the job skills: the matches found in job_skills[1..j]
RECURSIVE SkillMatches(_, _, _, _)
SkillMatches(resume_skills, job_skills, similarity_matrix, j) ==
    IF j = 0 THEN <<>>
    ELSE LET earlier == SkillMatches(resume_skills, job_skills, similarity_matrix, j - 1)
             best_resume_idx == ArgMax(similarity_matrix, Len(resume_skills), j)
             best_similarity == similarity_matrix[<<best_resume_idx, j>>]
         IN IF best_similarity > 5
            THEN Append(earlier, [job_skill |-> job_skills[j],
                                  resume_skill |-> resume_skills[best_resume_idx],
                                  similarity |-> Rat(best_similarity, 10)])
            ELSE earlier

RECURSIVE SumSimilarity(_)
SumSimilarity(skill_matches) ==
    IF skill_matches = <<>> THEN Zero
    ELSE RatAdd(Head(skill_matches).similarity, SumSimilarity(Tail(skill_matches)))

calculate_semantic_similarity(resume_skills, job_skills, model_loaded, similarity_matrix) ==
    IF Falsy(resume_skills) \/ Falsy(job_skills) \/ ~model_loaded
    THEN NoSimilarity
    ELSE LET skill_matches == SkillMatches(resume_skills.items, job_skills.items,
                                           similarity_matrix, Len(job_skills.items))
             matched_skills == [i \in 1..Len(skill_matches) |-> skill_matches[i].job_skill]
         IN [similarity_score |->
                 IF skill_matches = <<>> THEN Zero
                 ELSE RatMul(SumSimilarity(skill_matches), Rat(1, Len(skill_matches))),
             matched_skills |-> matched_skills,
             skill_matches |-> skill_matches,
             coverage_percentage |-> Rat(100 * Len(matched_skills), Len(job_skills.items)),
             total_job_skills |-> Len(job_skills.items),
             total_matched |-> Len(matched_skills)]

\* BaseScoringEngine._enhanced_skills_match: the KeyError of a key the
\* embedding result lacks is caught and the legacy matcher called, whose
\* exception leaves the function
_enhanced_skills_match(resume_skills, job_skills, model_loaded, similarity_matrix) ==
    LET embedding_result ==
            calculate_semantic_similarity(resume_skills, job_skills, model_loaded,
                                          similarity_matrix)
        legacy_result == match_skills(resume_skills, job_skills)
    IN IF {"coverage_percentage", "matched_skills", "total_job_skills", "total_matched",
           "skill_matches", "similarity_score"} \subseteq DOMAIN embedding_result
       THEN [match_percentage |-> embedding_result.coverage_percentage,
             matching_skills |-> embedding_result.matched_skills,
             total_job_skills |-> embedding_result.total_job_skills,
             total_matched |-> embedding_result.total_matched,
             skill_matches |-> embedding_result.skill_matches,
             similarity_score |-> embedding_result.similarity_score,
             method |-> "embedding"]
       ELSE IF "exception" \in DOMAIN legacy_result THEN legacy_result
       ELSE Merge(legacy_result, [method |-> "legacy"])

\* the lists given to the embedding matcher and to the wrapper
EmbeddedResumeSkills == {Nil, PyList(<<>>), PyList(<<"ReactJS">>), PyList(<<"ReactJS", "Node">>)}

EmbeddedJobSkills == {Nil, PyList(<<>>), PyList(<<"React">>), PyList(<<"React", "Node.js">>)}

EmbeddingCalls ==
    {[function |-> f, resume_skills |-> r, job_skills |-> j, model_loaded |-> loaded] :
        f \in {"calculate_semantic_similarity", "_enhanced_skills_match"},
        r \in EmbeddedResumeSkills, j \in EmbeddedJobSkills, loaded \in BOOLEAN}

\* the similarity matrices cosine_similarity can return for the call
SimilarityMatrices(resume_skills, job_skills) ==
    IF Falsy(resume_skills) \/ Falsy(job_skills) THEN {<<>>}
    ELSE [(1..Len(resume_skills.items)) \X (1..Len(job_skills.items)) -> CosineValues]

CalculateSemanticSimilarity ==
    /\ call # Nil
    /\ call.function = "calculate_semantic_similarity"
    /\ call_result = Nil
    /\ \E similarity_matrix \in SimilarityMatrices(call.resume_skills, call.job_skills) :
           call_result' = calculate_semantic_similarity(call.resume_skills, call.job_skills,
                                                        call.model_loaded, similarity_matrix)
    /\ UNCHANGED <<call, singletonVars, requestVars>>

EnhancedSkillsMatch ==
    /\ call # Nil
    /\ call.function = "_enhanced_skills_match"
    /\ call_result = Nil
    /\ \E similarity_matrix \in SimilarityMatrices(call.resume_skills, call.job_skills) :
           call_result' = _enhanced_skills_match(call.resume_skills, call.job_skills,
                                                 call.model_loaded, similarity_matrix)
    /\ UNCHANGED <<call, singletonVars, requestVars>>

----------------------------------------------------------------------------
(* The degree helpers called on their own.  The degree strings are the
   lower-cased strings, character by character. *)

Str_phd_in_computer_science ==
    <<"p", "h", "d", " ", "i", "n", " ", "c", "o", "m", "p", "u", "t", "e",
    "r", " ", "s", "c", "i", "e", "n", "c", "e">>

Str_doctorate == <<"d", "o", "c", "t", "o", "r", "a", "t", "e">>

Str_master_of_science ==
    <<"m", "a", "s", "t", "e", "r", " ", "o", "f", " ", "s", "c", "i", "e",
    "n", "c", "e">>

Str_mba == <<"m", "b", "a">>

Str_bachelor_of_engineering ==
    <<"b", "a", "c", "h", "e", "l", "o", "r", " ", "o", "f", " ", "e", "n",
    "g", "i", "n", "e", "e", "r", "i", "n", "g">>

Str_associate_of_arts ==
    <<"a", "s", "s", "o", "c", "i", "a", "t", "e", " ", "o", "f", " ", "a",
    "r", "t", "s">>

Str_certificate_in_marketing ==
    <<"c", "e", "r", "t", "i", "f", "i", "c", "a", "t", "e", " ", "i", "n",
    " ", "m", "a", "r", "k", "e", "t", "i", "n", "g">>

DegreeStrings ==
    {Str_phd_in_computer_science, Str_doctorate, Str_master_of_science, Str_mba,
     Str_bachelor_of_engineering, Str_bs, Str_associate_of_arts, Str_diploma,
     Str_certificate_in_marketing, Str_high_school, Str_no_degree, <<>>}

MaxEducationEntries == 2

DegreeLists ==
    UNION {[1..n -> {[degree |-> d] : d \in DegreeStrings}] : n \in 0..MaxEducationEntries}

EducationCalls ==
    {[function |-> "_get_degree_score", degree |-> d] : d \in DegreeStrings}
    \cup {[function |-> "education_analysis", education |-> e] : e \in DegreeLists}

GetDegreeScore ==
    /\ call # Nil
    /\ call.function = "_get_degree_score"
    /\ call_result = Nil
    /\ call_result' = [value |-> _get_degree_score(call.degree)]
    /\ UNCHANGED <<call, singletonVars, requestVars>>

\* the education analysis of _analyze_structured_data
AnalyzeEducation ==
    /\ call # Nil
    /\ call.function = "education_analysis"
    /\ call_result = Nil
    /\ call_result' =
           IF call.education = <<>> THEN EmptyDict
           ELSE LET highest_degree == _get_highest_degree(call.education)
                IN [highest_degree |-> highest_degree,
                    education_count |-> Len(call.education),
                    degree_level_score |-> _get_degree_score(highest_degree)]
    /\ UNCHANGED <<call, singletonVars, requestVars>>

----------------------------------------------------------------------------
(* DynamicWeightCalculator (utils/dynamic_weights.py).  A weight is a number
   of hundredths; a JSON value that is no number is NotANumber. *)

Num(hundredths) == [hundredths |-> hundredths]

NotANumber == [text |-> "high"]

ScoringComponents == {"skills_match", "experience_match", "education_match", "domain_expertise"}

RECURSIVE SumWeights(_, _)
SumWeights(weights, keys) ==
    IF keys = {} THEN 0
    ELSE LET key == CHOOSE k \in keys : TRUE
         IN weights[key].hundredths + SumWeights(weights, keys \ {key})

_validate_weights(weights) ==
    /\ weights # Nil
    /\ DOMAIN weights # {}
    /\ \A key \in DOMAIN weights :
           /\ "hundredths" \in DOMAIN weights[key]
           /\ weights[key].hundredths >= 0
           /\ weights[key].hundredths <= 100
    /\ 95 <= SumWeights(weights, DOMAIN weights)
    /\ SumWeights(weights, DOMAIN weights) <= 105

_get_fallback_scoring_weights ==
    [component \in ScoringComponents |-> Num(100 \div Cardinality(ScoringComponents))]

\* the reply of the chat completion is the exception it raised, a content
\* that json.loads rejects, or the parsed JSON object
calculate_scoring_weights(reply) ==
    IF "exception" \in DOMAIN reply \/ reply.json = Nil
    THEN _get_fallback_scoring_weights
    ELSE LET weights == Get(reply.json, "weights", EmptyDict)
         IN IF _validate_weights(weights) THEN weights
            ELSE _get_fallback_scoring_weights

\* the values a weight of the reply takes
ReplyWeightValues == {Num(-10), Num(0), Num(20), Num(30), Num(50), Num(120), NotANumber}

ReplyWeights ==
    [ScoringComponents -> ReplyWeightValues]
    \cup [{"skills_match", "experience_match"} -> ReplyWeightValues]
    \cup {[skills_match |-> Num(35), experience_match |-> Num(30),
           education_match |-> Num(15), domain_expertise |-> Num(20)],
          EmptyDict}

WeightReplies ==
    {[exception |-> "APIConnectionError"], [json |-> Nil],
     [json |-> [reasoning |-> "none"]]}
    \cup {[json |-> [weights |-> w, reasoning |-> "none"]] : w \in ReplyWeights}

WeightCalls == {[function |-> "calculate_scoring_weights", reply |-> r] : r \in WeightReplies}

CalculateScoringWeights ==
    /\ call # Nil
    /\ call.function = "calculate_scoring_weights"
    /\ call_result = Nil
    /\ call_result' = calculate_scoring_weights(call.reply)
    /\ UNCHANGED <<call, singletonVars, requestVars>>

----------------------------------------------------------------------------
(* ModelSingleton.get_model (utils/embedding_matcher.py), called from the
   threads of one process.  The method takes no lock, so a thread can be
   overtaken between any two of its reads and writes of the shared
   attributes.  A loaded model is the record of its name and of the
   construction that made it. *)

Threads == {"t1", "t2"}

ModelNames == {"all-MiniLM-L6-v2", "paraphrase-MiniLM-L3-v2"}

MaxLoads == 3

Outside == [at |-> "outside", model_name |-> "", new_model |-> Nil, returned |-> Nil]

\* model_singleton.get_model(self.model_name) of a matcher, or preload_model
GetModel(t, model_name) ==
    /\ thread_pc # <<>>
    /\ thread_pc[t].at = "outside"
    /\ thread_pc' = [thread_pc EXCEPT ![t] = [Outside EXCEPT !.at = "check_model",
                                                            !.model_name = model_name]]
    /\ UNCHANGED <<_model, _model_name, loads, libraryVars, requestVars>>

\* if self._model is None ...
CheckModel(t) ==
    /\ thread_pc # <<>>
    /\ thread_pc[t].at = "check_model"
    /\ thread_pc' = [thread_pc EXCEPT ![t].at =
                         IF _model = Nil THEN "load" ELSE "check_name"]
    /\ UNCHANGED <<_model, _model_name, loads, libraryVars, requestVars>>

\* ... or self._model_name != model_name
CheckName(t) ==
    /\ thread_pc # <<>>
    /\ thread_pc[t].at = "check_name"
    /\ thread_pc' = [thread_pc EXCEPT ![t].at =
                         IF _model_name # [str |-> thread_pc[t].model_name]
                         THEN "load" ELSE "return"]
    /\ UNCHANGED <<_model, _model_name, loads, libraryVars, requestVars>>

\* SentenceTransformer(model_name) returns a model
Load(t) ==
    /\ thread_pc # <<>>
    /\ thread_pc[t].at = "load"
    /\ loads < MaxLoads
    /\ loads' = loads + 1
    /\ thread_pc' = [thread_pc EXCEPT ![t].at = "store_model",
                                      ![t].new_model = [name |-> thread_pc[t].model_name,
                                                        load |-> loads + 1]]
    /\ UNCHANGED <<_model, _model_name, libraryVars, requestVars>>

\* SentenceTransformer(model_name) raises
LoadRaises(t) ==
    /\ thread_pc # <<>>
    /\ thread_pc[t].at = "load"
    /\ thread_pc' = [thread_pc EXCEPT ![t].at = "clear_model"]
    /\ UNCHANGED <<_model, _model_name, loads, libraryVars, requestVars>>

\* self._model = <the model constructed>
StoreModel(t) ==
    /\ thread_pc # <<>>
    /\ thread_pc[t].at = "store_model"
    /\ _model' = thread_pc[t].new_model
    /\ thread_pc' = [thread_pc EXCEPT ![t].at = "store_name"]
    /\ UNCHANGED <<_model_name, loads, libraryVars, requestVars>>

\* self._model_name = model_name
StoreName(t) ==
    /\ thread_pc # <<>>
    /\ thread_pc[t].at = "store_name"
    /\ _model_name' = [str |-> thread_pc[t].model_name]
    /\ thread_pc' = [thread_pc EXCEPT ![t].at = "return"]
    /\ UNCHANGED <<_model, loads, libraryVars, requestVars>>

\* except: self._model = None
ClearModel(t) ==
    /\ thread_pc # <<>>
    /\ thread_pc[t].at = "clear_model"
    /\ _model' = Nil
    /\ thread_pc' = [thread_pc EXCEPT ![t].at = "clear_name"]
    /\ UNCHANGED <<_model_name, loads, libraryVars, requestVars>>

\* except: self._model_name = None
ClearName(t) ==
    /\ thread_pc # <<>>
    /\ thread_pc[t].at = "clear_name"
    /\ _model_name' = Nil
    /\ thread_pc' = [thread_pc EXCEPT ![t].at = "return"]
    /\ UNCHANGED <<_model, loads, libraryVars, requestVars>>

\* return self._model
ReturnModel(t) ==
    /\ thread_pc # <<>>
    /\ thread_pc[t].at = "return"
    /\ thread_pc' = [thread_pc EXCEPT ![t] = [Outside EXCEPT !.returned = _model]]
    /\ UNCHANGED <<_model, _model_name, loads, libraryVars, requestVars>>

----------------------------------------------------------------------------
(* Specifications *)

\* one request to DualScoringEngine.calculate_score
Init ==
    /\ DualInit
    /\ comments = Nil
    /\ comment_job = Nil
    /\ comment_reply = Nil
    /\ comment_result = Nil
    /\ model = "dual"
    /\ prompts = NoPrompts
    /\ api_response = Nil
    /\ evaluation = Nil
    /\ LibraryIdle

Next ==
    \/ AnalyzeStructured
    \/ CallOpenAI
    \/ CallGemini
    \/ CallGeminiRaises
    \/ Combine
    \/ Respond

Spec == Init /\ [][Next]_vars

\* one call of process_user_comments
InitComments ==
    /\ CommentInit
    /\ resume_data = Nil
    /\ job_data = Nil
    /\ structured_analysis = Nil
    /\ openai_result = Nil
    /\ openai_scoring_result = Nil
    /\ gemini_result = Nil
    /\ gemini_scoring_result = Nil
    /\ combined_analysis = Nil
    /\ response = Nil
    /\ model = Nil
    /\ prompts = NoPrompts
    /\ api_response = Nil
    /\ evaluation = Nil
    /\ LibraryIdle

NextComments ==
    \/ ProcessBlankComments
    \/ ProcessUserComments

SpecComments == InitComments /\ [][NextComments]_vars

\* one ScoringResult built from a judge's result dict and combined with the
\* ScoringResult of a failed second judge
InitJudge ==
    /\ pc = "judge"
    /\ openai_result \in JudgeResults
    /\ gemini_result = _create_standardized_error_response(
                           _create_error_response("Gemini", "timeout"),
                           [provider |-> "Gemini", error |-> TRUE])
    /\ structured_analysis = MinimalAnalysis
    /\ resume_data = Nil
    /\ job_data = Nil
    /\ openai_scoring_result = Nil
    /\ gemini_scoring_result = Nil
    /\ combined_analysis = Nil
    /\ response = Nil
    /\ comments = Nil
    /\ comment_job = Nil
    /\ comment_reply = Nil
    /\ comment_result = Nil
    /\ model = Nil
    /\ prompts = NoPrompts
    /\ api_response = Nil
    /\ evaluation = Nil
    /\ LibraryIdle

NextJudge ==
    \/ BuildScoringResults
    \/ Combine

SpecJudge == InitJudge /\ [][NextJudge]_vars

\* _intelligent_score_combination on the ScoringResults of two judges that
\* both answered
InitConsensus ==
    /\ pc = "judge"
    /\ \E pair \in JudgePairs :
           /\ openai_result = pair[1]
           /\ gemini_result = pair[2]
    /\ structured_analysis = MinimalAnalysis
    /\ resume_data = Nil
    /\ job_data = Nil
    /\ openai_scoring_result = Nil
    /\ gemini_scoring_result = Nil
    /\ combined_analysis = Nil
    /\ response = Nil
    /\ comments = Nil
    /\ comment_job = Nil
    /\ comment_reply = Nil
    /\ comment_result = Nil
    /\ model = Nil
    /\ prompts = NoPrompts
    /\ api_response = Nil
    /\ evaluation = Nil
    /\ LibraryIdle

NextConsensus ==
    \/ BuildScoringResults
    \/ Combine

SpecConsensus == InitConsensus /\ [][NextConsensus]_vars

\* no scoring request and no comment analysis is under way
RequestIdle ==
    /\ pc = "library"
    /\ analyses = 0
    /\ resume_data = Nil
    /\ job_data = Nil
    /\ structured_analysis = Nil
    /\ openai_result = Nil
    /\ openai_scoring_result = Nil
    /\ gemini_result = Nil
    /\ gemini_scoring_result = Nil
    /\ combined_analysis = Nil
    /\ response = Nil
    /\ comments = Nil
    /\ comment_job = Nil
    /\ comment_reply = Nil
    /\ comment_result = Nil
    /\ model = Nil
    /\ prompts = NoPrompts
    /\ api_response = Nil
    /\ evaluation = Nil

\* one call of a date helper
InitExperience ==
    /\ RequestIdle
    /\ call \in ExperienceCalls
    /\ call_result = Nil
    /\ _model = Nil
    /\ _model_name = Nil
    /\ thread_pc = <<>>
    /\ loads = 0

NextExperience ==
    \/ ExtractYearsFromDate
    \/ CalculateExperienceYears

SpecExperience == InitExperience /\ [][NextExperience]_vars

\* one call of a degree helper
InitEducation ==
    /\ RequestIdle
    /\ call \in EducationCalls
    /\ call_result = Nil
    /\ _model = Nil
    /\ _model_name = Nil
    /\ thread_pc = <<>>
    /\ loads = 0

NextEducation ==
    \/ GetDegreeScore
    \/ AnalyzeEducation

SpecEducation == InitEducation /\ [][NextEducation]_vars

\* one call of the weight calculator
InitWeights ==
    /\ RequestIdle
    /\ call \in WeightCalls
    /\ call_result = Nil
    /\ _model = Nil
    /\ _model_name = Nil
    /\ thread_pc = <<>>
    /\ loads = 0

NextWeights ==
    \/ CalculateScoringWeights

SpecWeights == InitWeights /\ [][NextWeights]_vars

\* a process whose threads have not yet asked for the model
InitSingleton ==
    /\ RequestIdle
    /\ call = Nil
    /\ call_result = Nil
    /\ _model = Nil
    /\ _model_name = Nil
    /\ thread_pc = [t \in Threads |-> Outside]
    /\ loads = 0

NextSingleton ==
    \/ \E t \in Threads, model_name \in ModelNames : GetModel(t, model_name)
    \/ \E t \in Threads : CheckModel(t)
    \/ \E t \in Threads : CheckName(t)
    \/ \E t \in Threads : Load(t)
    \/ \E t \in Threads : LoadRaises(t)
    \/ \E t \in Threads : StoreModel(t)
    \/ \E t \in Threads : StoreName(t)
    \/ \E t \in Threads : ClearModel(t)
    \/ \E t \in Threads : ClearName(t)
    \/ \E t \in Threads : ReturnModel(t)

SpecSingleton == InitSingleton /\ [][NextSingleton]_vars

\* one call of a skill matcher
InitSkills ==
    /\ RequestIdle
    /\ call \in MatchCalls \cup EmbeddingCalls
    /\ call_result = Nil
    /\ _model = Nil
    /\ _model_name = Nil
    /\ thread_pc = <<>>
    /\ loads = 0

NextSkills ==
    \/ MatchSkills
    \/ CalculateSemanticSimilarity
    \/ EnhancedSkillsMatch

SpecSkills == InitSkills /\ [][NextSkills]_vars

\* one request to a caller: score_resume with one of the three engines,
\* run_evaluation, or a direct call of _create_base_prompt
InitService ==
    /\ pc \in {"score_resume", "run_evaluation", "base_prompt"}
    /\ comments \in CommentTexts
    /\ model \in Models
    /\ pc # "score_resume" => model = "dual"
    /\ \E resume \in ServiceResumes :
           resume_data = IF pc = "base_prompt"
                         THEN Merge(resume, [user_comments |-> comments])
                         ELSE resume
    /\ job_data \in ServiceJobs
    /\ comment_job = Nil
    /\ comment_reply \in ServiceAnalyzerReplies
    /\ comment_result = Nil
    /\ structured_analysis = Nil
    /\ openai_result = Nil
    /\ openai_scoring_result = Nil
    /\ gemini_result = Nil
    /\ gemini_scoring_result = Nil
    /\ combined_analysis = Nil
    /\ response = Nil
    /\ prompts = NoPrompts
    /\ api_response = Nil
    /\ evaluation = Nil
    /\ LibraryIdle

NextService ==
    \/ AttachUserComments
    \/ AnalyzeStructured
    \/ CallOpenAI
    \/ CallGemini
    \/ CallGeminiRaises
    \/ Combine
    \/ Respond
    \/ ScoreWithOpenAI
    \/ ScoreWithGemini
    \/ ReturnScore
    \/ RunEvaluation
    \/ BuildBasePrompt

SpecService == InitService /\ [][NextService]_vars

----------------------------------------------------------------------------
(* Properties of the dual-judge engine, checked under Spec *)

\* the combination has run
Combined == pc \in {"respond", "done"}

\* calculate_score has returned
Returned == pc = "done"

\* the judges that succeeded: no error and a score above 0
Succeeded == ValidResults(<<openai_scoring_result, gemini_scoring_result>>)

\* the call of the Gemini engine raised instead of returning
GeminiCallRaised == pc \in {"combine", "respond", "done"} /\ gemini_result = Nil

\* the backend of a judge failed (network error, timeout, malformed JSON)
\* and the engine returned its error result
OpenAIBackendFailed ==
    /\ pc \notin {"start", "openai"}
    /\ Get(openai_result.openai_results.processing_info, "error", FALSE)

GeminiBackendFailed ==
    /\ pc \in {"combine", "respond", "done"}
    /\ gemini_result # Nil
    /\ Get(gemini_result.gemini_results.processing_info, "error", FALSE)

\* score is an integer nearest to num / den (den > 0)
IsNearest(score, num, den) == 2 * Abs(score * den - num) <= den

\* C1: whatever the two judges answered and whatever the structured analysis
\* holds, the final_score and the overall_score that calculate_score returns
\* lie between 0 and 100.
C1_FinalScoreBounded ==
    Returned =>
        /\ response.overall_score \in 0..100
        /\ "final_score" \in DOMAIN response => response.final_score \in 0..100

\* C2: when both judges succeeded with scores in 1..100, the combined score
\* is the confidence-weighted mean of the two scores rounded to the nearest
\* integer.
C2_WeightedMeanRounded ==
    (Combined /\ Len(Succeeded) >= 2 /\ \A i \in 1..Len(Succeeded) : Succeeded[i].score \in 1..100)
        => IsNearest(combined_analysis.overall_score,
                     WeightedSum(Succeeded), TotalConfidence(Succeeded))

\* C3: when exactly one judge succeeded, with score s, the combined score is
\* s itself, there is no score variance and the consensus level is the
\* single-model label of that judge; the response built from the two judges'
\* returned results carries the same score and label.
C3_SingleJudgePassThrough ==
    (Combined /\ Len(Succeeded) = 1) =>
        /\ combined_analysis.overall_score = Succeeded[1].score
        /\ combined_analysis.ai_comparison.score_variance = Nil
        /\ combined_analysis.ai_comparison.consensus_level
               \in {"Single Model (OpenAI)", "Single Model (Gemini)"}
        /\ (Returned /\ ~GeminiCallRaised) =>
               /\ response.final_score = Succeeded[1].score
               /\ response.overall_score = Succeeded[1].score
               /\ response.transparency.validation.score_variance = Nil
               /\ response.transparency.validation.models_agreement
                      = combined_analysis.ai_comparison.consensus_level

\* C3 witness: OpenAI answered 77, Gemini's backend failed, and the response
\* carries 77 under the single-model label.
C3_Witness ==
    /\ Returned
    /\ Len(Succeeded) = 1
    /\ GeminiBackendFailed
    /\ openai_scoring_result.score = 77
    /\ response.final_score = 77
    /\ response.transparency.validation.models_agreement = "Single Model (OpenAI)"

\* the sub-scores the structured analysis computed: the skills match
\* percentage, the level match score of the experience evaluation and the
\* degree score, each 0 when the resume or the job gives nothing to compute
ComputedSkills(analysis) ==
    Get(Get(analysis, "skills_analysis", EmptyDict), "skills_match_percentage",
        [num |-> 0, den |-> 1])

ComputedExperience(analysis) ==
    Get(Get(Get(analysis, "experience_analysis", EmptyDict), "experience_level_match",
            EmptyDict),
        "level_match_score", 0)

ComputedEducation(analysis) ==
    Get(Get(analysis, "education_analysis", EmptyDict), "degree_level_score", 0)

\* C4: when no judge succeeded, the combined score is
\* skills*0.35 + experience*0.30 + education*0.15 of the computed sub-scores,
\* rounded to the nearest integer (education 0 without a degree, experience 0
\* without experience), and the consensus level is the fallback-only label.
C4_FallbackComposite ==
    (Combined /\ Len(Succeeded) = 0) =>
        /\ LET skills == ComputedSkills(structured_analysis)
           IN IsNearest(combined_analysis.overall_score,
                        skills.num * 35
                            + skills.den * (ComputedExperience(structured_analysis) * 30
                                            + ComputedEducation(structured_analysis) * 15),
                        100 * skills.den)
        /\ combined_analysis.ai_comparison.consensus_level = "Fallback Only"

\* C5: when the backends of both judges fail, calculate_score returns a
\* response that is not an error response: its final_score is the fallback
\* score of the structured analysis and its transparency metadata states the
\* degraded mode (fallback used, not both models available, fallback-only
\* agreement).
C5_AllJudgesDown ==
    (Returned /\ OpenAIBackendFailed /\ GeminiBackendFailed) =>
        /\ "error" \notin DOMAIN response
        /\ "error_occurred" \notin DOMAIN response
        /\ response.final_score = FallbackScore(structured_analysis)
        /\ response.overall_score = response.final_score
        /\ response.transparency.validation.fallback_used
        /\ ~response.transparency.validation.both_models_available
        /\ response.transparency.validation.models_agreement = "Fallback Only"

\* C5 witness: both backends failed and a response with a positive fallback
\* score and the fallback flag was returned.
C5_Witness ==
    /\ Returned
    /\ OpenAIBackendFailed
    /\ GeminiBackendFailed
    /\ response.final_score > 0
    /\ response.transparency.validation.fallback_used

\* C6: a failing Gemini judge, whether its engine returned an error result
\* or its call raised, is held as an error result with score 0 and leaves the
\* request alive: with OpenAI succeeding with score s the response is not an
\* error response and carries final_score s under the single-model label.
C6_JudgeFailureIsolated ==
    (Returned /\ ~openai_scoring_result.error_occurred /\ openai_scoring_result.score > 0
        /\ (GeminiCallRaised \/ GeminiBackendFailed)) =>
        /\ gemini_scoring_result.error_occurred
        /\ gemini_scoring_result.score = 0
        /\ "error" \notin DOMAIN response
        /\ "final_score" \in DOMAIN response
        /\ response.final_score = openai_scoring_result.score
        /\ response.transparency.validation.models_agreement = "Single Model (OpenAI)"

----------------------------------------------------------------------------
(* Properties of the comment analysis, checked under SpecComments *)

\* process_user_comments returned the analysis of an analyzer reply
Analyzed == pc = "commented" /\ "alignment_scores" \in DOMAIN comment_result
                /\ comment_result.alignment_scores # EmptyDict

\* the claims the analyzer extracted, by dimension
ClaimOf(dimension) == comment_result.multi_dimensional_analysis[dimension]

AlignmentOf(dimension) == comment_result.alignment_scores[dimension]

\* the dimension earned nothing: alignment 0 and no entry in the bonuses map
NothingFor(key) ==
    /\ AlignmentOf(BonusDimension(key)).num = 0
    /\ key \notin DOMAIN comment_result.scoring_adjustments

\* what the job text says about each dimension
JobSaysAny(text, words) == \E word \in words : TextHas(text, word)

JobHasArrangementSignal ==
    JobSaysAny(comment_job.description,
               {"remote", "work from home", "distributed", "office", "onsite", "on-site",
                "in-person", "hybrid"})

JobHasUrgencySignal == JobSaysAny(comment_job.description, urgent_keywords)

JobHasSenioritySignal ==
    JobSaysAny(comment_job.title,
               {"senior", "lead", "principal", "staff", "junior", "entry", "graduate", "intern"})

JobHasTechSignal == JobSaysAny(comment_job.description, tech_keywords)

JobHasRoleSignal ==
    JobSaysAny(comment_job.description \cup comment_job.title,
               UNION {role_keywords[focus_type] : focus_type \in DOMAIN role_keywords})

\* C7: a claim on a dimension for which the job carries no signal (no
\* arrangement keyword, no urgency keyword, no seniority keyword in the title,
\* no technology or role keyword) gets alignment 0 and no entry in the
\* bonuses map, whatever its strength.
C7_NoBonusWithoutJobSignal ==
    Analyzed =>
        /\ ~JobHasArrangementSignal => NothingFor("work_arrangement")
        /\ ~JobHasUrgencySignal => NothingFor("availability")
        /\ ~JobHasSenioritySignal => NothingFor("experience_level")
        /\ ~JobHasTechSignal => NothingFor("technical_alignment")
        /\ ~JobHasRoleSignal => NothingFor("role_focus")

\* a strength between 0.0 and 1.0, in tenths
InUnitRange(strength) == strength \in 0..10

\* the four direct conflicts between a claim and the job
RemoteAgainstOnsite ==
    /\ Lower(ClaimOf("work_arrangement").preferred_arrangement) = "remote"
    /\ JobSaysAny(comment_job.description, {"office", "onsite", "on-site", "in-person"})
    /\ ~JobSaysAny(comment_job.description, {"remote", "work from home", "distributed"})

OnsiteAgainstRemote ==
    /\ Lower(ClaimOf("work_arrangement").preferred_arrangement) = "onsite"
    /\ JobSaysAny(comment_job.description, {"remote", "work from home", "distributed"})

JuniorAgainstSenior ==
    /\ Lower(ClaimOf("experience_level").experience_level_claim) = "junior"
    /\ JobSaysAny(comment_job.title, {"senior", "lead", "principal", "staff"})

MonthsAgainstUrgent ==
    /\ Lower(ClaimOf("availability").availability_timeline) = "months"
    /\ JobHasUrgencySignal

\* C8: a claim in direct conflict with the job (remote preference against an
\* onsite job, onsite against remote, junior against a senior job, 'months'
\* against an urgent job) gets alignment exactly 0 for every strength in
\* [0, 1], and the dimension has no entry in the bonuses map.
C8_ConflictScoresZero ==
    Analyzed =>
        /\ ((RemoteAgainstOnsite \/ OnsiteAgainstRemote)
               /\ InUnitRange(ClaimOf("work_arrangement").arrangement_strength))
               => NothingFor("work_arrangement")
        /\ (JuniorAgainstSenior /\ InUnitRange(ClaimOf("experience_level").confidence_level))
               => NothingFor("experience_level")
        /\ (MonthsAgainstUrgent /\ InUnitRange(ClaimOf("availability").availability_urgency))
               => NothingFor("availability")

\* C8 witness: at full strength, a remote preference met an onsite job, a
\* junior claim a senior job and 'months' an urgent job, and none of the
\* three dimensions earned anything.
C8_Witness ==
    /\ Analyzed
    /\ RemoteAgainstOnsite
    /\ JuniorAgainstSenior
    /\ MonthsAgainstUrgent
    /\ ClaimOf("work_arrangement").arrangement_strength = 10
    /\ NothingFor("work_arrangement")
    /\ NothingFor("experience_level")
    /\ NothingFor("availability")

\* the sum of the entries of a bonuses map, key by key
SumOfEntries(bonuses) ==
    LET Entry(key) == IF key \in DOMAIN bonuses THEN bonuses[key] ELSE Zero
    IN RatAdd(Entry("technical_alignment"),
              RatAdd(Entry("work_arrangement"),
                     RatAdd(Entry("availability"),
                            RatAdd(Entry("role_focus"), Entry("experience_level")))))

\* C9: for every analyzer reply that process_user_comments processed,
\* total_bonus is the sum of the bonuses map and is not negative, a dimension
\* has an entry in the map exactly when its alignment score is above 0, and
\* total_bonus is exactly 0 when no dimension is aligned.
C9_TotalBonusIsSum ==
    Analyzed =>
        /\ RatEq(comment_result.total_bonus, SumOfEntries(comment_result.scoring_adjustments))
        /\ comment_result.total_bonus.num >= 0
        /\ DOMAIN comment_result.scoring_adjustments \subseteq BonusKeys
        /\ \A key \in BonusKeys :
               key \in DOMAIN comment_result.scoring_adjustments
                   <=> AlignmentOf(BonusDimension(key)).num > 0
        /\ (\A key \in BonusKeys : AlignmentOf(BonusDimension(key)).num = 0)
               => comment_result.total_bonus.num = 0

\* C9 witness: two dimensions aligned and entered the map, a third was
\* claimed and misaligned, and the total is the positive sum of the two.
C9_Witness ==
    /\ Analyzed
    /\ DOMAIN comment_result.scoring_adjustments = {"work_arrangement", "availability"}
    /\ ClaimOf("experience_level").experience_level_claim = "junior"
    /\ RatEq(comment_result.total_bonus,
             RatAdd(comment_result.scoring_adjustments["work_arrangement"],
                    comment_result.scoring_adjustments["availability"]))
    /\ comment_result.total_bonus.num > 0

\* C10: for every analyzer reply, each bonus is at most the cap of its
\* dimension (technical 8, work arrangement 4, availability 3, role focus 3,
\* experience level 2) and total_bonus is at most 20.
C10_BonusesCapped ==
    Analyzed =>
        /\ \A key \in DOMAIN comment_result.scoring_adjustments :
               ~RatLess(Rat(MaxPoints(key), 1), comment_result.scoring_adjustments[key])
        /\ ~RatLess(Rat(20, 1), comment_result.total_bonus)

----------------------------------------------------------------------------
(* Properties of the callers, checked under SpecService *)

\* run_evaluation returned its result
Evaluated == pc = "evaluated" /\ "summary" \in DOMAIN evaluation

\* score_resume returned its result
Served == pc = "returned"

\* the bonus the comment of the request earns, as process_user_comments
\* computes it from the analyzer's reading of the comment
IntentBonus ==
    LET result == CHOOSE r \in process_user_comments(comments, job_data, comment_reply) : TRUE
    IN Get(result, "total_bonus", Zero)

\* min(100, base_score + total_bonus)
CappedTotal(base_score, total_bonus) ==
    RatMin(Rat(100, 1), RatAdd(Rat(base_score, 1), total_bonus))

\* C11: whenever the candidate's comment yields an intent bonus, the total
\* score reported to the caller is min(100, base_score + total_bonus): it
\* is at most 100 and at least the base score.
C11_TotalIsCappedSum ==
    /\ Evaluated /\ RatLess(Zero, evaluation.summary.comment_bonus) =>
           LET base_score == evaluation.summary.overall_score
               total == evaluation.summary.total_with_bonus
           IN /\ RatEq(total, CappedTotal(base_score, evaluation.summary.comment_bonus))
              /\ ~RatLess(Rat(100, 1), total)
              /\ ~RatLess(total, Rat(base_score, 1))
    /\ Served /\ RatLess(Zero, IntentBonus) =>
           LET base_score == Get(response, "overall_score", 0)
           IN RatEq(Rat(api_response.score, 1), CappedTotal(base_score, IntentBonus))

Dimensions == {"technical", "work_arrangement", "availability", "role_focus",
               "experience_level"}

\* the result of process_user_comments on the comment of the request
CommentAnalysis ==
    CHOOSE r \in process_user_comments(comments, job_data, comment_reply) : TRUE

\* the dimension carries a claim of the candidate
HasClaim(analysis, dimension) ==
    CASE dimension = "technical" -> analysis.technical.claimed_skills # <<>>
      [] dimension = "work_arrangement" ->
             analysis.work_arrangement.preferred_arrangement # ""
      [] dimension = "availability" -> analysis.availability.availability_timeline # ""
      [] dimension = "role_focus" -> analysis.role_focus.role_interests # <<>>
      [] OTHER -> analysis.experience_level.experience_level_claim # ""

\* the dimensions of the comment that carry a claim and have alignment_score 0
MisalignedDimensions ==
    IF "alignment_scores" \notin DOMAIN CommentAnalysis
           \/ CommentAnalysis.alignment_scores = EmptyDict
    THEN {}
    ELSE {d \in Dimensions :
              /\ HasClaim(CommentAnalysis.multi_dimensional_analysis, d)
              /\ RatEq(CommentAnalysis.alignment_scores[d], Zero)}

\* the heading generate_multi_dimensional_feedback gives a dimension
Heading(dimension) ==
    CASE dimension = "technical" -> "Technical Skills"
      [] dimension = "work_arrangement" -> "Work Style"
      [] dimension = "availability" -> "Availability"
      [] dimension = "role_focus" -> "Focus Areas"
      [] OTHER -> "Experience Level"

IsPrompt(prompt) == "resume_text" \in DOMAIN prompt

\* the resume text of the prompt holds the candidate's comment
ResumeTextHasComment(prompt) ==
    \E i \in 1..Len(prompt.resume_text) : prompt.resume_text[i] = Strip(comments)

\* the candidate-context section of the prompt holds the claim and verdict
\* of the dimension, or the comment itself
ContextHasDimension(prompt, dimension) ==
    LET section == Get(prompt, "user_comments_section", EmptyDict)
    IN /\ section # EmptyDict
       /\ \/ section.original_comments = Strip(comments)
          \/ \E i \in 1..Len(section.structured_profile) :
                 section.structured_profile[i][1] = Heading(dimension)

\* C12: text of a dimension whose alignment_score is 0 never reaches a
\* judge: no prompt built for a judge holds, in its candidate-context section
\* or in its resume text, the claim, the verdict or the original comment
\* text of a misaligned dimension.
C12_MisalignedTextOmitted ==
    \A judge \in DOMAIN prompts :
        IsPrompt(prompts[judge]) =>
            \A dimension \in MisalignedDimensions :
                /\ ~ResumeTextHasComment(prompts[judge])
                /\ ~ContextHasDimension(prompts[judge], dimension)

----------------------------------------------------------------------------
(* Properties of ScoringResult, checked under SpecJudge; confidences are in
   tenths *)

\* the two ScoringResults have been built
Judged == pc \in {"combine", "respond"}

JudgeScoringResults == <<openai_scoring_result, gemini_scoring_result>>

\* confidence_weights of the combined response
ConfidenceWeights == combined_analysis.ai_comparison.confidence_weights

\* C13: for every judge result built by ScoringResult, errored or not, the
\* confidence lies in [0.1, 1.0] - never 0, never above 1 - and so does
\* every value reported in confidence_weights.
C13_ConfidenceNeverZero ==
    /\ Judged => \A i \in 1..2 : JudgeScoringResults[i].confidence \in 1..10
    /\ pc = "respond" => \A provider \in DOMAIN ConfidenceWeights :
                             ConfidenceWeights[provider] \in 1..10

\* C13 as amended: the confidence of a judge result that is not errored
\* lies in [0.1, 1.0]; that of an errored result is 0.0; confidence_weights
\* reports these values.
C13_ConfidenceInRangeUnlessErrored ==
    /\ Judged =>
           \A i \in 1..2 :
               LET r == JudgeScoringResults[i]
               IN IF Get(r.raw_result, "error_occurred", FALSE)
                  THEN r.confidence = 0
                  ELSE r.confidence \in 1..10
    /\ pc = "respond" =>
           /\ DOMAIN ConfidenceWeights = {"openai", "gemini"}
           /\ ConfidenceWeights.openai = openai_scoring_result.confidence
           /\ ConfidenceWeights.gemini = gemini_scoring_result.confidence

\* a judge at the lowest confidence next to an errored judge, both reported
C13_Witness ==
    /\ pc = "respond"
    /\ ~openai_result.error_occurred
    /\ ConfidenceWeights.openai = 1
    /\ ConfidenceWeights.gemini = 0

\* the confidence the claim gives for a level, a score and a fallback flag
ClaimedBase(level) ==
    CASE level \in {"High", "HIGH"} -> 9
      [] level \in {"Medium", "medium"} -> 7
      [] level \in {"Low", "low"} -> 4

ClaimedScoreAdjustment(score) ==
    IF score >= 85 \/ score <= 25 THEN 1
    ELSE IF score >= 40 /\ score <= 70 THEN -1
    ELSE 0

ClaimedConfidence(level, score, fallback_used) ==
    LET sum == ClaimedBase(level) + ClaimedScoreAdjustment(score)
                   + (IF fallback_used THEN -2 ELSE 0)
    IN IF sum < 1 THEN 1 ELSE IF sum > 10 THEN 10 ELSE sum

NamedLevels == {"High", "HIGH", "Medium", "medium", "Low", "low"}

ReportsFallback(result) ==
    "transparency" \in DOMAIN result /\ result.transparency.validation.fallback_used

\* C14: for a judge result that is not errored, confidence is the clamp to
\* [0.1, 1.0] of base (0.9 / 0.7 / 0.4 for High / Medium / Low in any case)
\* plus 0.1 for a score >= 85 or <= 25, minus 0.1 for a score in 40..70,
\* minus 0.2 when the result's transparency reports fallback_used.
C14_ConfidenceFormula ==
    Judged /\ ~openai_result.error_occurred
           /\ Get(openai_result, "confidence_level", "absent") \in NamedLevels =>
        openai_scoring_result.confidence =
            ClaimedConfidence(openai_result.confidence_level, openai_result.overall_score,
                              ReportsFallback(openai_result))

\* a Medium judge with an extreme score on the fallback path: 0.7 + 0.1 - 0.2
C14_Witness ==
    /\ Judged
    /\ ~openai_result.error_occurred
    /\ Get(openai_result, "confidence_level", "absent") = "medium"
    /\ openai_result.overall_score = 85
    /\ ReportsFallback(openai_result)
    /\ openai_scoring_result.confidence = 6

----------------------------------------------------------------------------
(* Properties of the combination of two judges that answered, checked under
   SpecConsensus *)

\* the level the claim gives two scores: CV = |a - b| / (a + b) against
\* 0.10, 0.20, 0.35 and 0.50
ClaimedConsensusLevel(a, b) ==
    LET spread == Abs(a - b)
        total == a + b
    IN IF 10 * spread <= total THEN "Very High"
       ELSE IF 5 * spread <= total THEN "High"
       ELSE IF 20 * spread <= 7 * total THEN "Medium"
       ELSE IF 2 * spread <= total THEN "Low"
       ELSE "Very Low"

\* C15: when two judges succeeded the consensus level is decided by the
\* coefficient of variation of their scores alone: CV <= 0.10 gives Very
\* High, <= 0.20 High, <= 0.35 Medium, <= 0.50 Low, anything larger Very Low.
C15_ConsensusFromVariation ==
    pc = "respond" /\ Len(Succeeded) >= 2 =>
        combined_analysis.ai_comparison.consensus_level =
            ClaimedConsensusLevel(openai_scoring_result.score, gemini_scoring_result.score)

\* scores 55 and 45 have CV exactly 0.10 and are rated Very High
C15_Witness ==
    /\ pc = "respond"
    /\ Len(Succeeded) >= 2
    /\ openai_scoring_result.score = 55
    /\ gemini_scoring_result.score = 45
    /\ combined_analysis.ai_comparison.consensus_level = "Very High"

\* the answers judge A can give with score 90: every level and fallback flag
AnswersOfA(provider_key) ==
    {JudgeResult(provider_key, 90, level, fallback, FALSE) :
        level \in {"High", "Medium", "Low", "Unsure"}, fallback \in {"absent", "true"}}

\* the combined score had judge A answered other instead
CombinedScoreWith(other) ==
    IF openai_scoring_result.score = 90
    THEN CombinedScore(<<ScoringResult(other), gemini_scoring_result>>, structured_analysis)
    ELSE CombinedScore(<<openai_scoring_result, ScoringResult(other)>>, structured_analysis)

\* judge A scored 90 and judge B 50
NinetyAndFifty ==
    /\ pc = "respond"
    /\ {openai_scoring_result.score, gemini_scoring_result.score} = {90, 50}

JudgeA == IF openai_scoring_result.score = 90 THEN openai_scoring_result ELSE gemini_scoring_result

JudgeB == IF openai_scoring_result.score = 90 THEN gemini_scoring_result ELSE openai_scoring_result

\* the answers of A that carry a higher confidence than the one given, on
\* the doubles: 0.7 + 0.1 = 0.7999999999999999 lies below 0.9 + 0.1 - 0.2 = 0.8
MoreConfidentAnswers ==
    {other \in AnswersOfA(IF openai_scoring_result.score = 90
                          THEN "openai_results" ELSE "gemini_results") :
        ConfidenceBelow(JudgeA, ScoringResult(other))}

----------------------------------------------------------------------------
(* Properties of the primary result, checked under Spec *)

\* the human-readable fields of a result dict
Qualitative(result) ==
    [strengths |-> Get(result, "strengths", Nil),
     concerns |-> Get(result, "concerns", Nil),
     summary |-> Get(result, "summary", Nil),
     confidence_level |-> Get(result, "confidence_level", Nil)]

\* C16: the strengths, concerns, summary and confidence_level of the combined
\* result are those of a judge of the highest confidence among the judges that
\* succeeded (no error, score above 0); when no judge succeeded they are the
\* ones synthesized from the structured analysis, never those of a judge that
\* failed or scored 0.
C16_PrimaryIsMostConfidentSucceeded ==
    Combined =>
        IF Succeeded # <<>>
        THEN \E i \in 1..Len(Succeeded) :
                 /\ Qualitative(combined_analysis) = Qualitative(Succeeded[i].raw_result)
                 /\ \A j \in 1..Len(Succeeded) :
                        Succeeded[j].confidence <= Succeeded[i].confidence
        ELSE Qualitative(combined_analysis) =
                 Qualitative(_create_enhanced_fallback_response(structured_analysis))

----------------------------------------------------------------------------
(* Properties of weak claims and blank comments, checked under SpecComments *)

\* process_user_comments has returned the analysis of a comment
Analysed ==
    /\ pc = "commented"
    /\ "alignment_scores" \in DOMAIN comment_result
    /\ comment_result.alignment_scores # EmptyDict

\* the dimensions whose claim carries a strength
StrengthDimensions == {"technical", "work_arrangement", "availability", "experience_level"}

\* the strength the analyzer reported with the claim, in tenths
StrengthOf(analysis, dimension) ==
    CASE dimension = "technical" -> analysis.technical.technical_confidence
      [] dimension = "work_arrangement" -> analysis.work_arrangement.arrangement_strength
      [] dimension = "availability" -> analysis.availability.availability_urgency
      [] OTHER -> analysis.experience_level.confidence_level

\* the key of scoring_adjustments that holds the bonus of the dimension
BonusKey(dimension) ==
    IF dimension = "technical" THEN "technical_alignment" ELSE dimension

\* C18: a claim whose strength is below 0.3 counts as not made, in each of
\* the dimensions technical, work arrangement, availability and experience
\* level: its alignment_score is 0 and scoring_adjustments holds no bonus
\* for it.
C18_WeakClaimsSkipped ==
    Analysed =>
        \A d \in StrengthDimensions :
            /\ HasClaim(comment_result.multi_dimensional_analysis, d)
            /\ StrengthOf(comment_result.multi_dimensional_analysis, d) < 3
            => /\ RatEq(comment_result.alignment_scores[d], Zero)
               /\ BonusKey(d) \notin DOMAIN comment_result.scoring_adjustments

\* C19: process_user_comments on empty or whitespace-only comments returns
\* at once, without a call of the analyzer: total_bonus is 0, the maps
\* intent_analysis, alignment_scores and scoring_adjustments are empty and
\* structured_feedback is 'No context provided'.
C19_BlankCommentsZeroResult ==
    pc = "commented" /\ IsBlank(comments) =>
        /\ comment_reply = Nil
        /\ RatEq(Get(comment_result, "total_bonus", Nil), Zero)
        /\ Get(comment_result, "intent_analysis", Nil) = EmptyDict
        /\ Get(comment_result, "alignment_scores", Nil) = EmptyDict
        /\ Get(comment_result, "scoring_adjustments", Nil) = EmptyDict
        /\ Get(comment_result, "structured_feedback", Nil) = << <<"No context provided", "", "">> >>

----------------------------------------------------------------------------
(* Property of the fallback response, checked under Spec *)

\* the final score came from the structured fallback: no judge succeeded
FallbackPath ==
    /\ Returned
    /\ Succeeded = <<>>
    /\ response.ai_comparison.consensus_level = "Fallback Only"

\* C20: every response of calculate_score whose score was produced by the
\* structured fallback (no judge succeeded, consensus level Fallback Only)
\* has transparency.validation.fallback_used true and confidence_level 'Low'.
C20_FallbackIsFlagged ==
    FallbackPath =>
        /\ response.transparency.validation.fallback_used = TRUE
        /\ response.confidence_level = "Low"

----------------------------------------------------------------------------
(* Properties of the date helpers, checked under SpecExperience *)

\* a call of the named library function has returned
Called(function) == call # Nil /\ call.function = function /\ call_result # Nil

\* C21: for every date string, ranges that run backwards and start years
\* after the current year included, _extract_years_from_date returns a value
\* of at least 0, and so the total of _calculate_experience_years over any
\* list of entries is at least 0.
C21_YearsNeverNegative ==
    Called("_extract_years_from_date") \/ Called("_calculate_experience_years") =>
        /\ "value" \in DOMAIN call_result
        /\ call_result.value >= 0

\* the years the claim gives a date string; a bare year is left open
ClaimedYears(date_str) ==
    CASE date_str.fmt = "YYYY-YYYY" -> {date_str.b - date_str.a}
      [] date_str.fmt \in {"YYYY-present", "YYYY-current"} -> {2025 - date_str.a}
      [] date_str.fmt = "MM/YYYY-MM/YYYY" -> {date_str.y2 - date_str.y1}
      [] date_str.fmt \in {"text", "empty"} -> {0}
      [] OTHER -> Int

\* C22: _extract_years_from_date returns end - start for 'YYYY-YYYY',
\* current year - start for 'YYYY-present' and 'YYYY-current', the
\* difference of the two four-digit years for 'MM/YYYY-MM/YYYY' and 0 for a
\* string without a year.
C22_YearsByFormat ==
    Called("_extract_years_from_date") => call_result.value \in ClaimedYears(call.date_str)

----------------------------------------------------------------------------
(* Properties of the skill matchers, checked under SpecSkills *)

\* match_skills was called with two lists that hold skills, and returned
MatchedLists ==
    /\ Called("match_skills")
    /\ ~Falsy(call.resume_skills)
    /\ ~Falsy(call.job_skills)

RequiredSkills == call.job_skills.items

CandidateSkills == call.resume_skills.items

\* the required skills reported as matched, and as missing
MatchedRequired ==
    {call_result.matched_skills[i].job_skill : i \in 1..Len(call_result.matched_skills)}

MissingRequired ==
    {call_result.missing_skills[i] : i \in 1..Len(call_result.missing_skills)}

\* the best similarity of the required skill over the candidates reaches the
\* threshold
BestReaches(required, candidates) ==
    \E candidate \in candidates :
        ~RatLess(fuzzy_similarity(required, candidate), FUZZY_THRESHOLD)

\* every required skill is in exactly one of the two lists, and the
\* percentage is the share of the matched ones
OneOfTwoAndPercentage ==
    /\ MatchedRequired \cup MissingRequired = Range(RequiredSkills)
    /\ MatchedRequired \cap MissingRequired = {}
    /\ Len(call_result.matched_skills) + Len(call_result.missing_skills) = Len(RequiredSkills)
    /\ RatEq(call_result.match_percentage,
             Rat(100 * Len(call_result.matched_skills), Len(RequiredSkills)))

\* C23: for two non-empty lists, a required skill is matched when its best
\* similarity over the whole candidate list reaches the threshold and
\* missing otherwise; every required skill is in exactly one of matched and
\* missing, and match_percentage = matched / required * 100.
C23_MatchedByBestOfAll ==
    MatchedLists =>
        /\ \A k \in 1..Len(RequiredSkills) :
               RequiredSkills[k] \in MatchedRequired
                   <=> BestReaches(RequiredSkills[k], Range(CandidateSkills))
        /\ OneOfTwoAndPercentage

\* the candidates matched to the required skills before the k-th
TakenBefore(k) ==
    {call_result.matched_skills[i].resume_skill :
        i \in {m \in 1..Len(call_result.matched_skills) :
                  \E e \in 1..(k - 1) :
                      RequiredSkills[e] = call_result.matched_skills[m].job_skill}}

\* C23 as amended: the best similarity is taken over the candidates not
\* already matched to an earlier required skill.
C23_MatchedByBestOfUnused ==
    MatchedLists =>
        /\ \A k \in 1..Len(RequiredSkills) :
               RequiredSkills[k] \in MatchedRequired
                   <=> BestReaches(RequiredSkills[k],
                                   Range(CandidateSkills) \ TakenBefore(k))
        /\ OneOfTwoAndPercentage

\* candidate ReactJS, Node, Javascript against required React, Node.js,
\* JavaScript: all three matched, 100 percent
C23_Witness ==
    /\ MatchedLists
    /\ CandidateSkills = <<"ReactJS", "Node", "Javascript">>
    /\ RequiredSkills = <<"React", "Node.js", "JavaScript">>
    /\ MatchedRequired = {"React", "Node.js", "JavaScript"}
    /\ RatEq(call_result.match_percentage, Rat(100, 1))

\* a skill matcher was called with a list that is empty or missing
CalledWithoutSkills ==
    /\ \/ Called("match_skills")
       \/ Called("calculate_semantic_similarity")
       \/ Called("_enhanced_skills_match")
    /\ Falsy(call.resume_skills) \/ Falsy(call.job_skills)

\* C24: no skill matcher raises; with a list that is empty or missing, the
\* legacy matcher, the embedding matcher and the wrapper
\* _enhanced_skills_match return match_percentage 0, no matched skill and
\* the required list as missing.
C24_NoSkillsNoMatch ==
    CalledWithoutSkills =>
        /\ "exception" \notin DOMAIN call_result
        /\ "match_percentage" \in DOMAIN call_result
        /\ RatEq(call_result.match_percentage, Zero)
        /\ Get(call_result, "matched_skills", Nil) = <<>>
        /\ "missing_skills" \in DOMAIN call_result
        /\ IF call.job_skills = Nil THEN call_result.missing_skills = Nil
           ELSE call_result.missing_skills = call.job_skills.items

\* a character that belongs to a word
IsLetter(c) == c \notin {" ", "."}

\* term is one of the words of the string
IsWord(term, str) ==
    \E i \in 0..(Len(str) - Len(term)) :
        /\ SubSeq(str, i + 1, i + Len(term)) = term
        /\ i = 0 \/ ~IsLetter(str[i])
        /\ i + Len(term) = Len(str) \/ ~IsLetter(str[i + Len(term) + 1])

\* the level of the strongest degree the string names, as the claim lists
\* them: doctorate 100, master 80, bachelor 60, associate 40,
\* diploma/certificate 20, none 0
NamedDegreeScore(degree) ==
    IF \E t \in {<<"p","h","d">>, <<"d","o","c","t","o","r","a","t","e">>,
                 <<"d","o","c","t","o","r","a","l">>} : IsWord(t, degree) THEN 100
    ELSE IF \E t \in {<<"m","a","s","t","e","r">>, <<"m","a","s","t","e","r","s">>,
                      <<"m","b","a">>, <<"m","s">>, <<"m","a">>} : IsWord(t, degree) THEN 80
    ELSE IF \E t \in {<<"b","a","c","h","e","l","o","r">>,
                      <<"b","a","c","h","e","l","o","r","s">>, <<"b","s">>, <<"b","a">>,
                      <<"b","e">>} : IsWord(t, degree) THEN 60
    ELSE IF \E t \in {<<"a","s","s","o","c","i","a","t","e">>,
                      <<"a","s","s","o","c","i","a","t","e","s">>} : IsWord(t, degree) THEN 40
    ELSE IF \E t \in {<<"d","i","p","l","o","m","a">>,
                      <<"c","e","r","t","i","f","i","c","a","t","e">>} : IsWord(t, degree) THEN 20
    ELSE 0

\* C25: _get_degree_score returns exactly the level of the strongest degree
\* the string names (doctorate 100, master 80, bachelor 60, associate 40,
\* diploma or certificate 20, none 0), and the education score of a list is
\* the maximum of that level over its entries, which is the score of the
\* string _get_highest_degree selects.
C25_DegreeScoreIsStrongestNamed ==
    /\ Called("_get_degree_score") =>
           call_result.value = NamedDegreeScore(call.degree)
    /\ (Called("education_analysis") /\ call.education # <<>>) =>
           /\ call_result.degree_level_score = _get_degree_score(call_result.highest_degree)
           /\ \A i \in 1..Len(call.education) :
                  NamedDegreeScore(call.education[i].degree) <= call_result.degree_level_score
           /\ \E i \in 1..Len(call.education) :
                  NamedDegreeScore(call.education[i].degree) = call_result.degree_level_score

\* the fixed default weights of the claim
DefaultWeights ==
    [skills_match |-> Num(35), experience_match |-> Num(30),
     education_match |-> Num(15), domain_expertise |-> Num(20)]

\* the provider's call failed or its weights do not pass the validation
NoValidWeights ==
    /\ Called("calculate_scoring_weights")
    /\ \/ "exception" \in DOMAIN call.reply
       \/ call.reply.json = Nil
       \/ ~_validate_weights(Get(call.reply.json, "weights", EmptyDict))

\* C26: when the call of the weight provider fails or the weights it returns
\* do not pass the validation, the weights used are the fixed defaults
\* skills_match 0.35, experience_match 0.30, education_match 0.15,
\* domain_expertise 0.20.
C26_FallbackToDefaultWeights == NoValidWeights => call_result = DefaultWeights

\* both judge calls have settled: each left its one ScoringResult
JudgesSettled == openai_scoring_result # Nil /\ gemini_scoring_result # Nil

\* a step of a request: the combination only starts with both judges settled
\* and nothing combined yet, and what is set stays as it is
CombineStepOnce ==
    /\ (combined_analysis' # combined_analysis) =>
           /\ JudgesSettled
           /\ combined_analysis = Nil
           /\ combined_analysis' =
                  _intelligent_score_combination(
                      <<openai_scoring_result, gemini_scoring_result>>,
                      structured_analysis)
    /\ (openai_scoring_result # Nil) => UNCHANGED openai_scoring_result
    /\ (gemini_scoring_result # Nil) => UNCHANGED gemini_scoring_result
    /\ (combined_analysis # Nil) => UNCHANGED combined_analysis

OneAnalysisShared ==
    /\ analyses <= 1
    /\ (openai_result # Nil /\ ~Get(openai_result, "error_occurred", FALSE)) =>
           openai_result.structured_analysis = structured_analysis
    /\ (gemini_result # Nil /\ ~Get(gemini_result, "error_occurred", FALSE)) =>
           gemini_result.structured_analysis = structured_analysis
    /\ (response # Nil /\ "structured_analysis" \in DOMAIN response) =>
           response.structured_analysis = structured_analysis

\* C28: within one scoring request the structured analysis is computed
\* exactly once, before the judges run; that value is what every judge and
\* the fallback path work with, no judge call changes it, and it is the
\* structured_analysis of the final response.
C28_AnalysisComputedOnce ==
    /\ []OneAnalysisShared
    /\ [][(structured_analysis # Nil) => UNCHANGED structured_analysis]_vars

\* C29: across every interleaving of get_model calls from the threads of a
\* process, the embedding model is loaded at most once, and once it is set
\* no step replaces or resets it.
C29_ModelLoadedOnce ==
    /\ [](loads <= 1)
    /\ [][(_model # Nil) => UNCHANGED _model]_vars

\* the consensus levels of the two-judge weighted mean
TwoJudgeLevels == {"Very High", "High", "Medium", "Low", "Very Low"}

\* C30: in the report of a request, ai_comparison.agreement_analysis.
\* both_available and transparency.validation.both_models_available are true
\* exactly when the score is the two-judge weighted mean (consensus level
\* Very High .. Very Low), and score_agreement is set exactly then; on the
\* single-judge and fallback branches they are false and null.
C30_FlagsAgreeWithBranch ==
    (pc = "done" /\ "transparency" \in DOMAIN response) =>
        LET weighted_mean == response.ai_comparison.consensus_level \in TwoJudgeLevels
            agreement_analysis == response.ai_comparison.agreement_analysis
        IN /\ agreement_analysis.both_available = weighted_mean
           /\ response.transparency.validation.both_models_available = weighted_mean
           /\ (agreement_analysis.score_agreement # "None") = weighted_mean

====
